---- MODULE Spec2Model ----
(***************************************************************************)
(* Font resolution and font usage aggregation of PointAssisters:           *)
(*   ppta.py    - command line analyzer (theme font expansion, font usage)  *)
(*   qtppta.py  - GUI analyzer (font usage with visibility and sizes)       *)
(*   pptdump.py - JSON dumper (theme font expansion)                        *)
(*                                                                         *)
(* Python strings are sequences of one-character strings, so that          *)
(* lower(), strip(), startswith() and isalnum() are computed, not assumed. *)
(***************************************************************************)
EXTENDS Integers, Sequences, FiniteSets, Bags, TLC

(***************************************************************************)
(* Bounds of the model                                                     *)
(***************************************************************************)
MaxRuns == 2        \* runs of one paragraph

(***************************************************************************)
(* Python values                                                           *)
(***************************************************************************)
\* Python's None (also: an XML element that find() did not find).
None == <<"None">>

UpperCase == <<"A","B","C","D","E","F","G","H","I","J","K","L","M",
               "N","O","P","Q","R","S","T","U","V","W","X","Y","Z">>
LowerCase == <<"a","b","c","d","e","f","g","h","i","j","k","l","m",
               "n","o","p","q","r","s","t","u","v","w","x","y","z">>
Digits == {"0","1","2","3","4","5","6","7","8","9"}

\* str.lower() on one character
LowerChar(c) ==
    IF \E i \in 1..26 : UpperCase[i] = c
    THEN LowerCase[CHOOSE i \in 1..26 : UpperCase[i] = c]
    ELSE c

\* str.lower()
Lower(s) == [i \in 1..Len(s) |-> LowerChar(s[i])]

\* str.startswith(prefix)
StartsWith(s, prefix) ==
    /\ Len(prefix) <= Len(s)
    /\ \A i \in 1..Len(prefix) : s[i] = prefix[i]

\* str.isspace() on one character
IsSpace(c) == c \in {" ", "\t", "\n"}

\* str.strip()
Strip(s) ==
    LET keep == {i \in 1..Len(s) : ~IsSpace(s[i])}
    IN  IF keep = {} THEN <<>>
        ELSE LET lo == CHOOSE i \in keep : \A j \in keep : i <= j
                 hi == CHOOSE i \in keep : \A j \in keep : j <= i
             IN  SubSeq(s, lo, hi)

\* truth value of a Python str or None
Truthy(s) == s # None /\ s # <<>>

\* A dict is kept as the set of its <<key, value>> items, one per key.
\* the empty dict
EmptyDict == {}

\* the keys of a dict
Keys(d) == {item[1] : item \in d}

\* d[key] for a key of d
At(d, key) == (CHOOSE item \in d : item[1] = key)[2]

\* dict.get(key, default)
Get(d, key, default) == IF key \in Keys(d) THEN At(d, key) ELSE default

\* d[key] = value
Put(d, key, value) == {item \in d : item[1] # key} \cup {<<key, value>>}

(***************************************************************************)
(* Constants of the programs                                               *)
(***************************************************************************)
\* ppta.py / qtppta.py INTERNAL_FONT_MARKERS
INTERNAL_FONT_MARKERS ==
    { <<"+","m","j","-","l","t">>,
      <<"+","m","n","-","l","t">>,
      <<"+","b","o","d","y">>,
      <<"+","m","a","j","o","r">>,
      <<"+","m","i","n","o","r">>,
      <<"@">> }

\* the keys of THEME_FONT_CODES: the eight theme codes
MJ_LT  == <<"+","m","j","-","l","t">>
MN_LT  == <<"+","m","n","-","l","t">>
MJ_EA  == <<"+","m","j","-","e","a">>
MN_EA  == <<"+","m","n","-","e","a">>
MJ_CS  == <<"+","m","j","-","c","s">>
MN_CS  == <<"+","m","n","-","c","s">>
MJ_SYM == <<"+","m","j","-","s","y","m">>
MN_SYM == <<"+","m","n","-","s","y","m">>
THEME_FONT_CODES == {MJ_LT, MN_LT, MJ_EA, MN_EA, MJ_CS, MN_CS, MJ_SYM, MN_SYM}

\* the reserved bucket of qtppta.py
UNKNOWN == <<"(","u","n","k","n","o","w","n",")">>

\* is_internal_font with the lower-casing left out (a plausible slip)
is_internal_font_case_sensitive(font_name) ==
    \/ ~Truthy(font_name)
    \/ \E marker \in INTERNAL_FONT_MARKERS : StartsWith(font_name, marker)

\* qtppta.py is_internal_font (ppta.py's differs only in lower-casing the
\* markers, which are lower case already)
is_internal_font(font_name) ==
    \/ ~Truthy(font_name)
    \/ \E marker \in INTERNAL_FONT_MARKERS : StartsWith(Lower(font_name), marker)

(***************************************************************************)
(* Theme font scheme (the theme XML part of the first slide master)        *)
(***************************************************************************)
Cambria == <<"C","a","m","b","r","i","a">>
Calibri == <<"C","a","l","i","b","r","i">>
Arial   == <<"A","r","i","a","l">>
Symbols == <<"W","i","n","g","d","i","n","g","s">>

\* a:majorFont / a:minorFont: absent, or an element with optional
\* a:latin, a:ea, a:cs, a:sym children (value: the typeface attribute) and
\* `other` further children (a:font script entries).
NoElement == [present |-> FALSE, latin |-> None, ea |-> None, cs |-> None,
              sym |-> None, other |-> 0]
FontElements ==
    {NoElement} \cup
    [present : {TRUE}, latin : {None, Cambria, Calibri}, ea : {None, Calibri},
     cs : {None, Arial}, sym : {None, Symbols}, other : 0..1]

\* a:fontScheme, absent or with its a:majorFont and a:minorFont children
NoScheme == [present |-> FALSE, majorFont |-> NoElement, minorFont |-> NoElement]
FontSchemes == {NoScheme} \cup
    [present : {TRUE}, majorFont : FontElements, minorFont : FontElements]

\* the theme: part "ok" (readable), "missing" (no theme relationship) or
\* "malformed" (the XML does not parse); fontScheme absent or with its two
\* child elements.
Themes ==
    [part : {"ok"}, fontScheme : FontSchemes] \cup
    [part : {"missing", "malformed"}, fontScheme : {NoScheme}]

\* len(element): ElementTree's truth value of an element is len(element) > 0
NumChildren(e) ==
    (IF e.latin # None THEN 1 ELSE 0) + (IF e.ea # None THEN 1 ELSE 0)
    + (IF e.cs # None THEN 1 ELSE 0) + (IF e.sym # None THEN 1 ELSE 0) + e.other

\* bool(element) for a:majorFont / a:minorFont (None is falsy as well)
ElementTruthy(e) == e.present /\ NumChildren(e) > 0

\* bool(font_scheme)
SchemeTruthy(fs) == fs.present /\ (fs.majorFont.present \/ fs.minorFont.present)

\* ppta.py / qtppta.py extract_theme_fonts, as the dict it returns
extract_theme_fonts(theme) ==
    IF theme.part = "malformed" THEN {<<"error", {<<"message", <<"error">>>>}>>}
    ELSE IF theme.part = "missing" \/ ~theme.fontScheme.present THEN EmptyDict
    ELSE LET script_fonts(e) ==
                 IF ~e.present THEN EmptyDict
                 ELSE {<<"latin", e.latin>>, <<"east_asian", e.ea>>,
                       <<"complex_script", e.cs>>, <<"symbol", e.sym>>}
         IN  {<<"scheme_name", {<<"name", <<"Office">>>>}>>,
              <<"major_fonts", script_fonts(theme.fontScheme.majorFont)>>,
              <<"minor_fonts", script_fonts(theme.fontScheme.minorFont)>>}

\* ppta.py resolve_theme_font
resolve_theme_font(theme_fonts, theme_code) ==
    IF ~Truthy(theme_code) \/ ~StartsWith(theme_code, <<"+">>) THEN None
    ELSE LET major == Get(theme_fonts, "major_fonts", EmptyDict)
             minor == Get(theme_fonts, "minor_fonts", EmptyDict)
         IN  CASE theme_code = MJ_LT  -> Get(major, "latin", None)
               [] theme_code = MN_LT  -> Get(minor, "latin", None)
               [] theme_code = MJ_EA  -> Get(major, "east_asian", None)
               [] theme_code = MN_EA  -> Get(minor, "east_asian", None)
               [] theme_code = MJ_CS  -> Get(major, "complex_script", None)
               [] theme_code = MN_CS  -> Get(minor, "complex_script", None)
               [] theme_code = MJ_SYM -> Get(major, "symbol", None)
               [] theme_code = MN_SYM -> Get(minor, "symbol", None)
               [] OTHER -> None

\* texts pptdump.py returns in place of a typeface; a message is kept as its
\* chunks, which no typeface name (made of single characters) can equal
MsgNoTheme(code)    == <<"Unable to resolve theme code: ">> \o code \o <<" (no theme found)">>
MsgNoScheme(code)   == <<"Unable to resolve theme code: ">> \o code \o <<" (no font scheme found)">>
MsgIncomplete(code) == <<"Unable to resolve theme code: ">> \o code \o <<" (incomplete font scheme)">>
MsgError(code)      == <<"Error resolving theme code '">> \o code \o <<"': ...">>
MsgMajor(code)      == <<"Major font for script '">> \o SubSeq(code, 5, Len(code)) \o <<"' (unresolved)">>
MsgMinor(code)      == <<"Minor font for script '">> \o SubSeq(code, 5, Len(code)) \o <<"' (unresolved)">>
MsgUnknownCode(code) == <<"Unknown theme code: ">> \o code
Unknown_ == <<"U","n","k","n","o","w","n">>
Symbol_  == <<"S","y","m","b","o","l">>

\* pptdump.py resolve_theme_font, from the theme the shape leads to
dump_resolve_theme_font(theme, theme_code) ==
    IF ~Truthy(theme_code) THEN None
    ELSE IF ~StartsWith(theme_code, <<"+">>) THEN theme_code
    ELSE IF theme.part = "missing" THEN MsgNoTheme(theme_code)
    ELSE IF theme.part = "malformed" THEN MsgError(theme_code)
    ELSE IF ~SchemeTruthy(theme.fontScheme) THEN MsgNoScheme(theme_code)
    ELSE LET major_font == theme.fontScheme.majorFont
             minor_font == theme.fontScheme.minorFont
             slot(v, default) == IF v # None THEN v ELSE default
         IN  IF ~ElementTruthy(major_font) \/ ~ElementTruthy(minor_font)
             THEN MsgIncomplete(theme_code)
             ELSE CASE theme_code = MJ_LT  -> slot(major_font.latin, Unknown_)
                    [] theme_code = MN_LT  -> slot(minor_font.latin, Unknown_)
                    [] theme_code = MJ_EA  -> slot(major_font.ea, Unknown_)
                    [] theme_code = MN_EA  -> slot(minor_font.ea, Unknown_)
                    [] theme_code = MJ_CS  -> slot(major_font.cs, Unknown_)
                    [] theme_code = MN_CS  -> slot(minor_font.cs, Unknown_)
                    [] theme_code = MJ_SYM -> slot(major_font.sym, Symbol_)
                    [] theme_code = MN_SYM -> slot(minor_font.sym, Symbol_)
                    [] StartsWith(theme_code, <<"+","m","j","-">>) -> MsgMajor(theme_code)
                    [] StartsWith(theme_code, <<"+","m","n","-">>) -> MsgMinor(theme_code)
                    [] OTHER -> MsgUnknownCode(theme_code)

(***************************************************************************)
(* Runs and paragraphs (python-pptx objects, read only)                    *)
(***************************************************************************)
\* run.font.size is None
NoSize == -1

\* EMUs per point (qtppta.py line 290)
EMU_PER_POINT == 12700

UpperMJ_LT == <<"+","M","J","-","L","T">>

\* run.font.name: None, a literal typeface, or a "+..." code
RunNames == {None, Calibri, MJ_LT, UpperMJ_LT, MN_EA}

\* run.text
Texts == { <<"H","i">>, <<" ">>, <<>> }

\* run.font.size in EMU: None, 10pt, 18pt
Sizes == {NoSize, 127000, 228600}

\* a run whose attributes cannot be read (any access raises)
BadRun == [name |-> None, text |-> <<>>, size |-> NoSize, raises |-> TRUE]

Runs == [name : RunNames, text : Texts, size : Sizes, raises : {FALSE}] \cup {BadRun}

Georgia == <<"G","e","o","r","g","i","a">>

\* the default typefaces declared around a run, nearest first:
\* <<paragraph, shape, layout, master>>, None where a level declares none;
\* no level, one level or every level declares one
Chains ==
    {ch \in [1..4 -> {None, Georgia}] : Cardinality({i \in 1..4 : ch[i] # None}) \in {0, 1, 4}}

\* the first present entry of a chain, None when all are absent
FirstPresent(ch) ==
    IF \A i \in 1..Len(ch) : ch[i] = None THEN None
    ELSE ch[CHOOSE i \in 1..Len(ch) : ch[i] # None /\ \A j \in 1..(i-1) : ch[j] = None]

\* themes of the analyzed document in the usage analysis
DocThemes ==
    { [part |-> "ok",
       fontScheme |-> [present |-> TRUE,
                       majorFont |-> [present |-> TRUE, latin |-> Cambria, ea |-> None,
                                      cs |-> None, sym |-> None, other |-> 0],
                       minorFont |-> [present |-> TRUE, latin |-> Georgia, ea |-> None,
                                      cs |-> None, sym |-> None, other |-> 0]]],
      [part |-> "missing", fontScheme |-> NoScheme] }

\* the conversion by integer division: int(n // d)
PyRound_truncating(n, d) == n \div d

\* int(round(n / d)) for n >= 0: Python 3 rounds halves to the even integer
PyRound(n, d) ==
    LET q == n \div d
        r == n % d
    IN  IF 2 * r < d THEN q
        ELSE IF 2 * r > d THEN q + 1
        ELSE IF q % 2 = 0 THEN q ELSE q + 1

\* bool(run.text.strip())
HasVisibleText(run) == Strip(run.text) # <<>>

\* font_size of qtppta.analyze_paragraph_fonts (NoSize for None)
FontSize(run) == IF run.size # NoSize THEN PyRound(run.size, EMU_PER_POINT) ELSE NoSize

NewInfo == [has_visible_text |-> FALSE, sizes |-> {}]

\* the key with the name lower-cased (a plausible normalisation slip)
font_name_lowercased(run) == Lower(run.name)

\* `font_name = run.font.name`: the key a named run is recorded under
font_name(run) == run.name

\* the loop body with the size recorded whether or not the text is visible
qt_run_step_any_size(st, run) ==
    IF run.raises THEN st
    ELSE IF Truthy(run.name) /\ ~is_internal_font(run.name)
    THEN LET old == Get(st.fonts, font_name(run), NewInfo)
             new == [has_visible_text |-> old.has_visible_text \/ HasVisibleText(run),
                     sizes |-> IF FontSize(run) # NoSize
                               THEN old.sizes \cup {FontSize(run)} ELSE old.sizes]
         IN  [st EXCEPT !.fonts = Put(st.fonts, font_name(run), new)]
    ELSE IF HasVisibleText(run) \/ (FontSize(run) # NoSize /\ FontSize(run) # 0)
    THEN [st EXCEPT
            !.has_unknown_visible_text = st.has_unknown_visible_text \/ HasVisibleText(run),
            !.unknown_sizes = IF FontSize(run) # NoSize
                              THEN st.unknown_sizes \cup {FontSize(run)}
                              ELSE st.unknown_sizes]
    ELSE st

\* qtppta.analyze_paragraph_fonts: the body of `for run in paragraph.runs`
\* on the locals st = [fonts, unknown_sizes, has_unknown_visible_text]
qt_run_step(st, run) ==
    IF run.raises THEN st
    ELSE IF Truthy(run.name) /\ ~is_internal_font(run.name)
    THEN LET old == Get(st.fonts, font_name(run), NewInfo)
             new == IF HasVisibleText(run)
                    THEN [has_visible_text |-> TRUE,
                          sizes |-> IF FontSize(run) # NoSize
                                    THEN old.sizes \cup {FontSize(run)} ELSE old.sizes]
                    ELSE old
         IN  [st EXCEPT !.fonts = Put(st.fonts, font_name(run), new)]
    ELSE IF HasVisibleText(run) \/ (FontSize(run) # NoSize /\ FontSize(run) # 0)
    THEN [st EXCEPT
            !.has_unknown_visible_text = st.has_unknown_visible_text \/ HasVisibleText(run),
            !.unknown_sizes = IF FontSize(run) # NoSize /\ HasVisibleText(run)
                              THEN st.unknown_sizes \cup {FontSize(run)}
                              ELSE st.unknown_sizes]
    ELSE st

\* the locals of qtppta.analyze_paragraph_fonts before the loop
qt_para_start == [fonts |-> EmptyDict, unknown_sizes |-> {}, has_unknown_visible_text |-> FALSE]

\* the return without the "(unknown)" entry
qt_para_finish_without_unknown(st) == st.fonts

\* qtppta.analyze_paragraph_fonts after the loop: the "(unknown)" entry
qt_para_finish(st) ==
    IF st.has_unknown_visible_text \/ st.unknown_sizes # {}
    THEN Put(st.fonts, UNKNOWN, [has_visible_text |-> st.has_unknown_visible_text,
                                 sizes |-> st.unknown_sizes])
    ELSE st.fonts

\* the run handling of ppta.analyze_fonts with the internal-font filter left out
ppta_run_step_unfiltered(fonts, run) ==
    IF run.raises THEN fonts
    ELSE IF Truthy(run.name) THEN fonts \cup {run.name}
    ELSE fonts

\* ppta.analyze_fonts: the body of `for run in paragraph.runs`
ppta_run_step(fonts, run) ==
    IF run.raises THEN fonts
    ELSE IF Truthy(run.name) /\ ~is_internal_font(run.name) THEN fonts \cup {run.name}
    ELSE fonts

(***************************************************************************)
(* Shapes, slides and the usage index                                      *)
(***************************************************************************)
\* fold of the loop body over the runs of a paragraph
RECURSIVE qt_run_loop(_, _)
qt_run_loop(st, runs) ==
    IF runs = <<>> THEN st ELSE qt_run_loop(qt_run_step(st, Head(runs)), Tail(runs))

\* the function with the try around the loop instead of inside it: the
\* first run that raises ends the loop
analyze_paragraph_fonts_aborting(paragraph) ==
    LET last == IF \E i \in DOMAIN paragraph : paragraph[i].raises
                THEN (CHOOSE i \in DOMAIN paragraph :
                          paragraph[i].raises /\ \A j \in 1..(i-1) : ~paragraph[j].raises) - 1
                ELSE Len(paragraph)
    IN  qt_para_finish(qt_run_loop(qt_para_start, SubSeq(paragraph, 1, last)))

\* qtppta.analyze_paragraph_fonts
analyze_paragraph_fonts(paragraph) == qt_para_finish(qt_run_loop(qt_para_start, paragraph))

\* the merge with the visibility flags combined by exclusive or
merge_fonts_toggle(into, from) ==
    { <<k, IF k \in Keys(from)
           THEN LET old == Get(into, k, NewInfo)
                    info == At(from, k)
                IN  [has_visible_text |-> old.has_visible_text # info.has_visible_text,
                     sizes |-> IF info.has_visible_text
                               THEN old.sizes \cup info.sizes ELSE old.sizes]
           ELSE At(into, k)>> : k \in Keys(into) \cup Keys(from) }

\* the merge loop `for font_name, font_info in ....items()` of
\* analyze_shape_fonts and analyze_fonts: visibility OR-ed, sizes added when
\* the contribution is visible
merge_fonts(into, from) ==
    { <<k, IF k \in Keys(from)
           THEN LET old == Get(into, k, NewInfo)
                    info == At(from, k)
                IN  [has_visible_text |-> old.has_visible_text \/ info.has_visible_text,
                     sizes |-> IF info.has_visible_text
                               THEN old.sizes \cup info.sizes ELSE old.sizes]
           ELSE At(into, k)>> : k \in Keys(into) \cup Keys(from) }

\* merge of the results of a sequence of paragraphs into fonts
RECURSIVE merge_paragraphs(_, _)
merge_paragraphs(into, paragraphs) ==
    IF paragraphs = <<>> THEN into
    ELSE merge_paragraphs(merge_fonts(into, analyze_paragraph_fonts(Head(paragraphs))),
                          Tail(paragraphs))

\* the paragraphs of the cells of a table, row by row and cell by cell
RECURSIVE Flatten(_)
Flatten(seqs) == IF seqs = <<>> THEN <<>> ELSE Head(seqs) \o Flatten(Tail(seqs))

TableParagraphs(shape) == Flatten(Flatten(shape.rows))

\* the paragraphs, cells or member shapes the loops of a shape get to: all of
\* them, or of a shape whose reading raises the shape.readable first ones
ReadBeforeRaise(shape, elements) ==
    IF shape.raises THEN SubSeq(elements, 1, shape.readable) ELSE elements

\* qtppta.analyze_shape_fonts: text frame, table cells, then the shapes of a
\* group, recursively; when an access raises inside the try, `fonts` is
\* returned as it stands, holding what was merged before
RECURSIVE analyze_shape_fonts(_)
RECURSIVE merge_children(_, _)
merge_children(into, shapes) ==
    IF shapes = <<>> THEN into
    ELSE merge_children(merge_fonts(into, analyze_shape_fonts(Head(shapes))), Tail(shapes))

analyze_shape_fonts(shape) ==
    LET text_fonts  == IF shape.kind = "text"
                       THEN merge_paragraphs(EmptyDict,
                                             ReadBeforeRaise(shape, shape.paragraphs))
                       ELSE EmptyDict
        table_fonts == IF shape.kind = "table"
                       THEN merge_paragraphs(text_fonts,
                                             ReadBeforeRaise(shape, TableParagraphs(shape)))
                       ELSE text_fonts
    IN  IF shape.kind = "group"
        THEN merge_children(table_fonts, ReadBeforeRaise(shape, shape.shapes))
        ELSE table_fonts

\* shape_type of analyze_fonts
ShapeType(shape) == <<"Text Shape: ", shape.name>>

\* ppta.analyze_fonts: the fonts of one shape (text frame and table cells;
\* the shapes of a group are not visited); when an access raises, the except
\* of the shape is taken before the local `fonts` is stored
RECURSIVE ppta_run_loop(_, _)
ppta_run_loop(acc, runs) ==
    IF runs = <<>> THEN acc ELSE ppta_run_loop(ppta_run_step(acc, Head(runs)), Tail(runs))

ppta_shape_fonts(shape) ==
    IF shape.raises THEN {} ELSE
    LET text_fonts == IF shape.kind = "text"
                      THEN ppta_run_loop({}, Flatten(shape.paragraphs)) ELSE {}
    IN  IF shape.kind = "table"
        THEN ppta_run_loop(text_fonts, Flatten(TableParagraphs(shape))) ELSE text_fonts

\* qtppta.analyze_fonts: `font_usage[slide_num][shape_type] = fonts`
store_shape_fonts(usage, slide, shape_type, shape_fonts) ==
    Put(usage, slide, Put(Get(usage, slide, EmptyDict), shape_type, shape_fonts))

\* qtppta.analyze_fonts: font_usage after the shapes `items`, each a
\* <<slide_num, shape>>, were read in this order
RECURSIVE analyze_fonts_loop(_, _)
analyze_fonts_loop(usage, items) ==
    IF items = <<>> THEN usage
    ELSE LET shape_fonts == analyze_shape_fonts(Head(items)[2])
         IN  analyze_fonts_loop(
                 IF shape_fonts # EmptyDict
                 THEN store_shape_fonts(usage, Head(items)[1], ShapeType(Head(items)[2]),
                                        shape_fonts)
                 ELSE usage,
                 Tail(items))

\* ppta.analyze_fonts: `font_usage[slide_num][shape_type].update(fonts)`
ppta_store_shape_fonts(usage, slide, shape_type, shape_fonts) ==
    LET shapes == Get(usage, slide, EmptyDict)
    IN  Put(usage, slide, Put(shapes, shape_type, Get(shapes, shape_type, {}) \cup shape_fonts))

\* qtppta.format_font_report: font_to_slides, the per-font, per-slide records
\* merged over the shapes of each slide
format_font_to_slides(usage) ==
    LET shown(slide, st) == {font \in Keys(At(At(usage, slide), st)) :
                                Truthy(font) /\ ~is_internal_font(font)}
        entries == UNION { UNION { { <<slide, st, font>> : font \in shown(slide, st) }
                                   : st \in Keys(At(usage, slide)) }
                           : slide \in Keys(usage) }
        info(e) == At(At(At(usage, e[1]), e[2]), e[3])
        record(font, slide) ==
            LET of == {e \in entries : e[1] = slide /\ e[3] = font}
            IN  [has_visible_text |-> \E e \in of : info(e).has_visible_text,
                 sizes |-> UNION {info(e).sizes : e \in {x \in of : info(x).has_visible_text}}]
    IN  { <<font, { <<slide, record(font, slide)>> :
                    slide \in {e[1] : e \in {x \in entries : x[3] = font}} }>> :
          font \in {e[3] : e \in entries} }

\* ppta.print_font_report: font_to_slides, the slides of each font
ppta_format_font_to_slides(usage) ==
    LET slide_fonts(slide) == UNION {At(At(usage, slide), st) : st \in Keys(At(usage, slide))}
        rows == {font \in UNION {slide_fonts(slide) : slide \in Keys(usage)} :
                    Truthy(font) /\ ~is_internal_font(font)}
    IN  { <<font, {slide \in Keys(usage) : font \in slide_fonts(slide)}>> : font \in rows }

(***************************************************************************)
(* Font inventory and availability                                         *)
(***************************************************************************)
\* the characters of the model in code point order
CodePoints == <<" ", "(", ")", "+", "-">>
              \o <<"0","1","2","3","4","5","6","7","8","9">> \o <<"@">>
              \o UpperCase \o LowerCase

Ord(c) == CHOOSE i \in 1..Len(CodePoints) : CodePoints[i] = c

\* a < b for Python strings
StrLess(a, b) ==
    \E k \in 1..(Len(b)) :
        /\ \A i \in 1..(k-1) : i <= Len(a) /\ a[i] = b[i]
        /\ \/ k = Len(a) + 1
           \/ k <= Len(a) /\ Ord(a[k]) < Ord(b[k])

\* get_system_fonts: `sorted(set(font_names))`
get_system_fonts(font_names) ==
    CHOOSE seq \in [1..Cardinality(font_names) -> font_names] :
        \A i, j \in 1..Cardinality(font_names) : i < j => StrLess(seq[i], seq[j])

\* str.isalnum() on one character
IsAlnum(c) ==
    \/ c \in Digits
    \/ \E i \in 1..26 : UpperCase[i] = c \/ LowerCase[i] = c

\* ''.join(c.lower() for c in font if c.isalnum())
Normalized(font) == Lower(SelectSeq(font, IsAlnum))

\* {s.lower().strip() for s in system_fonts}
system_fonts_lower(system_fonts) ==
    {Strip(Lower(system_fonts[i])) : i \in DOMAIN system_fonts}

\* normalized_system_fonts: filled in the order of system_fonts, a later
\* entry replacing an earlier one with the same normalized form
RECURSIVE normalized_system_fonts(_)
normalized_system_fonts(system_fonts) ==
    IF system_fonts = <<>> THEN EmptyDict
    ELSE LET last == system_fonts[Len(system_fonts)]
         IN  Put(normalized_system_fonts(SubSeq(system_fonts, 1, Len(system_fonts) - 1)),
                 Normalized(last), last)

\* the Local Status cell
Installed == [verdict |-> "Installed", matched_font |-> None]
InstalledAs(matched_font) == [verdict |-> "Installed as", matched_font |-> matched_font]
Missing == [verdict |-> "Missing", matched_font |-> None]
UnknownStatus == [verdict |-> "Unknown", matched_font |-> None]

\* qtppta.format_font_report: status of a theme font (exact match, then
\* normalized match)
qt_theme_font_status(font, system_fonts) ==
    IF Lower(font) \in system_fonts_lower(system_fonts) THEN Installed
    ELSE IF Normalized(font) \in Keys(normalized_system_fonts(system_fonts))
    THEN InstalledAs(At(normalized_system_fonts(system_fonts), Normalized(font)))
    ELSE Missing

\* the status of a row with "(unknown)" classified like any other name
qt_font_status_classifying_unknown(font, system_fonts) ==
    qt_theme_font_status(font, system_fonts)

\* qtppta.format_font_report: status of a row of the Custom Font Usage table
qt_font_status(font, system_fonts) ==
    IF font = UNKNOWN THEN UnknownStatus
    ELSE IF Lower(font) \in system_fonts_lower(system_fonts) THEN Installed
    ELSE IF Normalized(font) \in Keys(normalized_system_fonts(system_fonts))
    THEN InstalledAs(At(normalized_system_fonts(system_fonts), Normalized(font)))
    ELSE Missing

\* the count of missing fonts taken from the exact match alone
qt_missing_fonts_exact_only(rows, system_fonts) ==
    Cardinality({font \in rows \ {UNKNOWN} :
                    Lower(font) \notin system_fonts_lower(system_fonts)})

\* qtppta.format_font_report: missing_fonts of the summary
qt_missing_fonts(rows, system_fonts) ==
    Cardinality({font \in rows \ {UNKNOWN} :
                    /\ Lower(font) \notin system_fonts_lower(system_fonts)
                    /\ Normalized(font) \notin Keys(normalized_system_fonts(system_fonts))})

\* ppta.print_font_report: status of a row and of a theme font
ppta_font_status(font, system_fonts) ==
    IF Lower(font) \in system_fonts_lower(system_fonts) THEN Installed ELSE Missing

\* the theme fonts of the report: <<"major" or "minor", script>> -> font
ThemeFontsOf(theme_fonts) ==
    { <<<<"major", item[1]>>, item[2]>> :
        item \in {x \in Get(theme_fonts, "major_fonts", EmptyDict) : Truthy(x[2])} }
    \cup
    { <<<<"minor", item[1]>>, item[2]>> :
        item \in {x \in Get(theme_fonts, "minor_fonts", EmptyDict) : Truthy(x[2])} }

\* the report before format_font_report / print_font_report has run
NoReport ==
    [font_to_slides |-> EmptyDict, rows |-> EmptyDict,
     theme_error |-> FALSE, theme_rows |-> EmptyDict,
     total_fonts |-> 0, missing_fonts |-> 0, unknown_fonts |-> 0,
     total_theme_fonts |-> 0, missing_theme_fonts |-> 0]

\* qtppta.format_font_report: the Custom Font Usage table, the Theme Fonts
\* table and the counts of the Fonts Summary
format_font_report(usage, system_fonts, presentation) ==
    LET theme_fonts == extract_theme_fonts(presentation)
        to_slides == format_font_to_slides(usage)
        theme_names == ThemeFontsOf(theme_fonts)
    IN  [font_to_slides |-> to_slides,
         rows |-> { <<font, qt_font_status(font, system_fonts)>> : font \in Keys(to_slides) },
         theme_error |-> "error" \in Keys(theme_fonts),
         theme_rows |-> IF "error" \in Keys(theme_fonts) THEN EmptyDict
                        ELSE { <<item[1], [font |-> item[2],
                                           status |-> qt_theme_font_status(item[2], system_fonts)]>> :
                               item \in theme_names },
         total_fonts |-> Cardinality(Keys(to_slides) \ {UNKNOWN}),
         missing_fonts |-> qt_missing_fonts(Keys(to_slides), system_fonts),
         unknown_fonts |-> IF UNKNOWN \in Keys(to_slides) THEN 1 ELSE 0,
         total_theme_fonts |-> Cardinality(theme_names),
         missing_theme_fonts |->
             Cardinality({item \in theme_names :
                 /\ Lower(item[2]) \notin system_fonts_lower(system_fonts)
                 /\ Normalized(item[2]) \notin Keys(normalized_system_fonts(system_fonts))})]

\* ppta.print_font_report: the Regular Font Usage table, the Theme Fonts table
\* and the counts of the Summary
print_font_report(usage, system_fonts, presentation) ==
    LET theme_fonts == extract_theme_fonts(presentation)
        to_slides == ppta_format_font_to_slides(usage)
        theme_names == ThemeFontsOf(theme_fonts)
    IN  [font_to_slides |-> to_slides,
         rows |-> { <<font, ppta_font_status(font, system_fonts)>> : font \in Keys(to_slides) },
         theme_error |-> "error" \in Keys(theme_fonts),
         theme_rows |-> IF "error" \in Keys(theme_fonts) THEN EmptyDict
                        ELSE { <<item[1], [font |-> item[2],
                                           status |-> ppta_font_status(item[2], system_fonts)]>> :
                               item \in theme_names },
         total_fonts |-> Cardinality(Keys(to_slides)),
         missing_fonts |-> Cardinality({font \in Keys(to_slides) :
                               Lower(font) \notin system_fonts_lower(system_fonts)}),
         unknown_fonts |-> 0,
         total_theme_fonts |-> Cardinality(theme_names),
         missing_theme_fonts |->
             Cardinality({item \in theme_names :
                 Lower(item[2]) \notin system_fonts_lower(system_fonts)})]

\* the small-font marks before format_font_report has run
NoMarks ==
    [small_font_slides |-> EmptyDict, whitespace_slides |-> EmptyDict,
     small_fonts |-> 0, slides_with_small_fonts |-> {}]

\* the test with a size equal to the threshold counted as small
has_small_font_inclusive(info, threshold) ==
    \E size \in info.sizes : size <= threshold

\* `any(size < font_size_threshold for size in info["sizes"])`
has_small_font(info, threshold) ==
    \E size \in info.sizes : size < threshold

\* qtppta.format_font_report: per font the slides marked with a dagger
\* (`small_font_slides`) and the slides marked with a star (whitespace
\* only), then the counts `small_fonts` and `slides_with_small_fonts` of
\* the Fonts Summary
format_small_fonts(to_slides, threshold) ==
    LET info(font, slide) == At(At(to_slides, font), slide)
        small(font) == {slide \in Keys(At(to_slides, font)) :
                           /\ info(font, slide).has_visible_text
                           /\ has_small_font(info(font, slide), threshold)}
    IN  [small_font_slides |-> { <<font, small(font)>> : font \in Keys(to_slides) },
         whitespace_slides |->
             { <<font, {slide \in Keys(At(to_slides, font)) :
                           ~info(font, slide).has_visible_text}>> : font \in Keys(to_slides) },
         small_fonts |-> Cardinality({font \in Keys(to_slides) \ {UNKNOWN} : small(font) # {}}),
         slides_with_small_fonts |-> UNION {small(font) : font \in Keys(to_slides)}]

\* `int(self.threshold_entry.text())` of PowerPointAnalyzerGUI.analyze: the
\* entry holds an integer or not, and 24 stands in for what is not positive
parse_threshold(entry) ==
    IF entry.is_int /\ entry.value > 0 THEN entry.value ELSE 24

\* no path: the file entry is empty
NoFile ==
    [path |-> "", exists |-> FALSE, opens |-> FALSE, raises_in |-> "none", items |-> <<>>]

(***************************************************************************)
(* Elements that cannot be read: the log and the dump                      *)
(***************************************************************************)
\* a record of the logger: its level, its text up to the exception, and the
\* slide number the text carries (NoSlide when it carries none)
NoSlide == 0
LogRecord(level, message, slide) == [level |-> level, message |-> message, slide |-> slide]

\* `for run in paragraph.runs` reached a run whose reading raises
RaisingRunIn(paragraphs) ==
    \E i \in DOMAIN paragraphs : \E j \in DOMAIN paragraphs[i] : paragraphs[i][j].raises

\* the paragraphs of the text frame or of the cells of a shape
ParagraphsOf(shape) ==
    IF shape.kind = "text" THEN shape.paragraphs
    ELSE IF shape.kind = "table" THEN TableParagraphs(shape) ELSE <<>>

\* qtppta.py: the records analyze_shape_fonts(shape) writes, those of the
\* paragraphs and member shapes it gets to included
RECURSIVE analyze_shape_log(_)
analyze_shape_log(shape) ==
    LET members == IF shape.kind = "group" THEN ReadBeforeRaise(shape, shape.shapes) ELSE <<>>
    IN  (IF RaisingRunIn(ReadBeforeRaise(shape, ParagraphsOf(shape)))
         THEN {LogRecord("DEBUG", "Error analyzing run", NoSlide)} ELSE {})
        \cup UNION {analyze_shape_log(members[i]) : i \in DOMAIN members}
        \cup (IF shape.raises
              THEN {LogRecord("DEBUG", "Error analyzing shape", NoSlide)} ELSE {})

\* ppta.py: the records analyze_fonts writes for one shape of slide_num
ppta_shape_log(slide, shape) ==
    (IF RaisingRunIn(ReadBeforeRaise(shape, ParagraphsOf(shape)))
     THEN {LogRecord("DEBUG", "Error analyzing run", NoSlide)} ELSE {})
    \cup (IF shape.raises /\ shape.kind # "group"
          THEN {LogRecord("DEBUG", "Error processing shape in slide", slide)} ELSE {})

\* both programs: the record of a slide whose shapes cannot be enumerated
slide_log(slide) == {LogRecord("WARNING", "Error processing slide", slide)}

\* pptdump.shape_to_dict raises: the text frame or the table cannot be read, or
\* `run.text` of one of its runs raises; the members of a group are not read
shape_to_dict_raises(shape) ==
    /\ shape.kind # "group"
    /\ shape.raises \/ RaisingRunIn(ParagraphsOf(shape))

\* pptdump.slide_to_dict: the entry appended to slide_dict["shapes"], the
\* converted shape (here its name and kind) or the error entry
shape_entry(shape) ==
    IF shape_to_dict_raises(shape)
    THEN [error |-> "Failed to convert shape", shape_name |-> shape.name]
    ELSE [name |-> shape.name, shape_type |-> shape.kind]

\* pptdump.presentation_to_dict: the entry appended to pres_dict["slides"]
slide_entry(slide, shapes, raised) ==
    IF raised THEN [error |-> "Failed to convert slide", slide_number |-> slide]
    ELSE [slide_number |-> slide, shapes |-> shapes]

(***************************************************************************)
(* State                                                                   *)
(***************************************************************************)
VARIABLES
    \* theme expansion: resolve_theme_font of ppta.py and of pptdump.py
    theme,                      \* the theme the document carries
    theme_code,                 \* the code to expand
    ppta_resolved,              \* return value of ppta.resolve_theme_font
    dump_resolved,              \* return value of pptdump.resolve_theme_font
    returned,                   \* which of the two calls have returned
    \* one paragraph: qtppta.analyze_paragraph_fonts and ppta's run loop
    chain,                      \* default typefaces declared around the runs
    seen,                       \* the runs of the paragraph read so far
    n_runs,                     \* how many runs were read
    fonts,                      \* qtppta local `fonts`
    unknown_sizes,              \* qtppta local `unknown_sizes`
    has_unknown_visible_text,   \* qtppta local `has_unknown_visible_text`
    ppta_fonts,                 \* ppta.analyze_fonts local `fonts`
    paragraph_fonts,            \* return value of qtppta.analyze_paragraph_fonts
    para_pc,                    \* "loop" inside the loop over the runs, then "returned"
    \* one document: analyze_fonts and the font report of qtppta.py and ppta.py
    doc_theme,                  \* the theme of the document
    doc_runs,                   \* the runs of the slides read so far: <<slide, run>>
    doc_shapes,                 \* the shapes read so far, a bag of <<slide, shape>>
    doc_pc,                     \* "slides", "analyzed" (analyze_fonts returned), "reported"
    slide_num,                  \* the slide the loop of analyze_fonts is at
    n_shapes,                   \* shapes of the document read so far
    font_usage,                 \* qtppta.analyze_fonts
    all_fonts_info,             \* qtppta.analyze_fonts
    ppta_font_usage,            \* ppta.analyze_fonts `font_usage`
    ppta_all_fonts,             \* ppta.analyze_fonts `all_fonts`
    font_to_slides,             \* qtppta.format_font_report
    ppta_font_to_slides,        \* ppta.print_font_report `font_to_slides`
    system_fonts,               \* get_system_fonts(): the font inventory
    font_report,                \* qtppta.format_font_report: tables and counts
    ppta_font_report,           \* ppta.print_font_report: tables and counts
    log,                        \* qtppta.py: the records written to `logger`
    ppta_log,                   \* ppta.py: the records written to `logger`
    \* the same document converted by pptdump.presentation_to_dict
    doc_slides,                 \* the slides read so far, in order: shapes and failure
    slide_shapes,               \* slide_dict["shapes"] of the slide being converted
    pres_slides,                \* pres_dict["slides"]
    failure_free,               \* the results of analyze_fonts for what could be read
    \* the small-font marks of qtppta.format_font_report
    font_size_threshold,        \* the parameter `font_size_threshold`
    small_font_marks,           \* the slides marked per font and the two counts
    \* one process: PowerPointAnalyzerGUI.analyze, ppta.main, pptdump.main
    program,                    \* "qtppta", "ppta" or "pptdump"
    file_entry,                 \* the file the path names: file_entry.text(), argv
    checked,                    \* the sections whose check box is checked
    app_pc,                     \* "idle", or "try" inside the try block
    section,                    \* the position in the sections of the program
    output,                     \* qtppta: the local `output` of analyze
    results_text,               \* qtppta: what the results area holds
    status_bar,                 \* qtppta: the message of the status bar
    console,                    \* ppta, pptdump: what was printed to stdout
    failures_reported,          \* logger.error / stderr lines of the handlers
    events,                     \* loads, inventory enumerations, run resolution
    calls,                      \* calls of analyze() or main() so far
    pptx_path,                  \* the local `file_path` / `pptx_path` of the call
    history                     \* per call of analyze(): its path, and is Fonts checked

themeVars == <<theme, theme_code, ppta_resolved, dump_resolved, returned>>
paraVars == <<chain, seen, n_runs, fonts, unknown_sizes, has_unknown_visible_text,
              ppta_fonts, paragraph_fonts, para_pc>>
docVars == <<doc_theme, doc_runs, doc_shapes, doc_pc, slide_num, n_shapes, font_usage, all_fonts_info,
             ppta_font_usage, ppta_all_fonts, font_to_slides, ppta_font_to_slides,
             system_fonts, font_report, ppta_font_report, log, ppta_log>>
dumpVars == <<doc_slides, slide_shapes, pres_slides, failure_free>>
markVars == <<font_size_threshold, small_font_marks>>
appVars == <<program, file_entry, checked, app_pc, section, output, results_text,
             status_bar, console, failures_reported, events, calls, pptx_path, history>>
vars == <<themeVars, paraVars, docVars, dumpVars, markVars, appVars>>

\* the codes theme expansion is asked to expand
ThemeCodeInputs == THEME_FONT_CODES \cup { <<"+","m","j","-","x","x">>, <<"+","b","o","d","y">> }

ThemeIdle ==
    /\ theme = [part |-> "missing", fontScheme |-> NoScheme]
    /\ theme_code = None
    /\ ppta_resolved = None
    /\ dump_resolved = None
    /\ returned = {}

ParaIdle ==
    /\ chain = [i \in 1..4 |-> None]
    /\ seen = {}
    /\ n_runs = 0
    /\ fonts = EmptyDict
    /\ unknown_sizes = {}
    /\ has_unknown_visible_text = FALSE
    /\ ppta_fonts = {}
    /\ paragraph_fonts = EmptyDict
    /\ para_pc = "loop"

\* no slide converted; the first slide is about to be read
NewSlide == [shapes |-> <<>>, raises |-> FALSE]

\* the results of analyze_fonts in both programs before the first slide
NoUsage ==
    [font_usage |-> EmptyDict, all_fonts_info |-> EmptyDict,
     ppta_font_usage |-> EmptyDict, ppta_all_fonts |-> {}]

DumpIdle ==
    /\ doc_slides = <<NewSlide>>
    /\ slide_shapes = <<>>
    /\ pres_slides = <<>>
    /\ failure_free = NoUsage

\* format_font_report has not marked anything; the default threshold
MarksIdle ==
    /\ font_size_threshold = 24
    /\ small_font_marks = NoMarks

\* no process of the three programs is running
AppIdle ==
    /\ program = "qtppta"
    /\ file_entry = NoFile
    /\ checked = {}
    /\ app_pc = "idle"
    /\ section = 1
    /\ output = <<>>
    /\ results_text = <<>>
    /\ status_bar = ""
    /\ console = <<>>
    /\ failures_reported = 0
    /\ events = <<>>
    /\ calls = 0
    /\ pptx_path = NoFile
    /\ history = <<>>

DocIdle ==
    /\ doc_theme = [part |-> "missing", fontScheme |-> NoScheme]
    /\ doc_runs = {}
    /\ doc_shapes = EmptyBag
    /\ doc_pc = "slides"
    /\ slide_num = 1
    /\ n_shapes = 0
    /\ font_usage = EmptyDict
    /\ all_fonts_info = EmptyDict
    /\ ppta_font_usage = EmptyDict
    /\ ppta_all_fonts = {}
    /\ font_to_slides = EmptyDict
    /\ ppta_font_to_slides = EmptyDict
    /\ system_fonts = <<>>
    /\ font_report = NoReport
    /\ ppta_font_report = NoReport
    /\ log = {}
    /\ ppta_log = {}
    /\ DumpIdle
    /\ MarksIdle

(***************************************************************************)
(* Theme expansion                                                         *)
(***************************************************************************)
InitTheme ==
    /\ theme \in Themes
    /\ theme_code \in ThemeCodeInputs
    /\ ppta_resolved = None
    /\ dump_resolved = None
    /\ returned = {}
    /\ ParaIdle
    /\ DocIdle
    /\ AppIdle

\* ppta.py: resolve_theme_font(extract_theme_fonts(prs), code)
PptaResolve ==
    /\ "ppta" \notin returned
    /\ returned' = returned \cup {"ppta"}
    /\ ppta_resolved' = resolve_theme_font(extract_theme_fonts(theme), theme_code)
    /\ UNCHANGED <<theme, theme_code, dump_resolved, paraVars, docVars, dumpVars, markVars, appVars>>

\* pptdump.py: resolve_theme_font(shape, code)
DumpResolve ==
    /\ "pptdump" \notin returned
    /\ returned' = returned \cup {"pptdump"}
    /\ dump_resolved' = dump_resolve_theme_font(theme, theme_code)
    /\ UNCHANGED <<theme, theme_code, ppta_resolved, paraVars, docVars, dumpVars, markVars, appVars>>

NextTheme == PptaResolve \/ DumpResolve

SpecTheme == InitTheme /\ [][NextTheme]_vars

(***************************************************************************)
(* One paragraph                                                           *)
(***************************************************************************)
InitPara ==
    /\ chain \in Chains
    /\ seen = {}
    /\ n_runs = 0
    /\ fonts = EmptyDict
    /\ unknown_sizes = {}
    /\ has_unknown_visible_text = FALSE
    /\ ppta_fonts = {}
    /\ paragraph_fonts = EmptyDict
    /\ para_pc = "loop"
    /\ ThemeIdle
    /\ DocIdle
    /\ AppIdle

\* one iteration of `for run in paragraph.runs` in both programs
AnalyzeRun(run) ==
    /\ para_pc = "loop"
    /\ n_runs < MaxRuns
    /\ LET st == qt_run_step([fonts |-> fonts, unknown_sizes |-> unknown_sizes,
                              has_unknown_visible_text |-> has_unknown_visible_text], run)
       IN  /\ fonts' = st.fonts
           /\ unknown_sizes' = st.unknown_sizes
           /\ has_unknown_visible_text' = st.has_unknown_visible_text
    /\ ppta_fonts' = ppta_run_step(ppta_fonts, run)
    /\ seen' = seen \cup {run}
    /\ n_runs' = n_runs + 1
    /\ UNCHANGED <<chain, paragraph_fonts, para_pc, themeVars, docVars, dumpVars, markVars, appVars>>

\* the loop is over: qtppta.analyze_paragraph_fonts returns
ReturnParagraphFonts ==
    /\ para_pc = "loop"
    /\ para_pc' = "returned"
    /\ paragraph_fonts' = qt_para_finish([fonts |-> fonts, unknown_sizes |-> unknown_sizes,
                              has_unknown_visible_text |-> has_unknown_visible_text])
    /\ UNCHANGED <<chain, seen, n_runs, fonts, unknown_sizes, has_unknown_visible_text,
                   ppta_fonts, themeVars, docVars, dumpVars, markVars, appVars>>

NextPara == (\E run \in Runs : AnalyzeRun(run)) \/ ReturnParagraphFonts

SpecPara == InitPara /\ [][NextPara]_vars

(***************************************************************************)
(* One paragraph of one run: the conversion of run.font.size               *)
(***************************************************************************)
MaxEmu == 40000     \* run.font.size ranges over 0..MaxEmu, a little over 3 points

\* run.font.size in EMU: every value up to MaxEmu, and 18 points
EmuSizes == 0..MaxEmu \cup {228600}

\* a run with visible text of the given size, named or not
SizedRun(name, size) == [name |-> name, text |-> <<"H","i">>, size |-> size, raises |-> FALSE]

InitSize ==
    /\ chain = [i \in 1..4 |-> None]
    /\ seen = {}
    /\ n_runs = 0
    /\ fonts = EmptyDict
    /\ unknown_sizes = {}
    /\ has_unknown_visible_text = FALSE
    /\ ppta_fonts = {}
    /\ paragraph_fonts = EmptyDict
    /\ para_pc = "loop"
    /\ ThemeIdle
    /\ DocIdle
    /\ AppIdle

\* the only iteration of the loop over the runs, for a run of any size
AnalyzeSizedRun ==
    /\ n_runs = 0
    /\ \E name \in {Calibri, None} : \E size \in EmuSizes : AnalyzeRun(SizedRun(name, size))

NextSize == AnalyzeSizedRun \/ ReturnParagraphFonts

SpecSize == InitSize /\ [][NextSize]_vars

(***************************************************************************)
(* One document: analyze_fonts, then the font report                       *)
(***************************************************************************)
MaxSlides == 2      \* slides of a document
MaxShapes == 3      \* shapes of a document, over all its slides

RunA == [name |-> Calibri,    text |-> <<"H","i">>, size |-> 228600, raises |-> FALSE]
RunB == [name |-> Calibri,    text |-> <<" ">>,     size |-> 127000, raises |-> FALSE]
RunC == [name |-> MJ_LT,      text |-> <<"H","i">>, size |-> NoSize, raises |-> FALSE]
RunD == [name |-> MN_EA,      text |-> <<"H","i">>, size |-> 127000, raises |-> FALSE]
RunE == [name |-> UpperMJ_LT, text |-> <<" ">>,     size |-> NoSize, raises |-> FALSE]
DocRuns == {RunA, RunB, RunC, RunD, RunE}

\* the paragraphs of the documents
DocParagraphs == {<<run>> : run \in DocRuns} \cup {<<RunA, RunB>>}

TextShape(name, paragraphs) ==
    [name |-> name, kind |-> "text", paragraphs |-> paragraphs, rows |-> <<>>,
     shapes |-> <<>>, raises |-> FALSE, readable |-> 0]
TableShape(name, rows) ==
    [name |-> name, kind |-> "table", paragraphs |-> <<>>, rows |-> rows,
     shapes |-> <<>>, raises |-> FALSE, readable |-> 0]
GroupShape(name, shapes) ==
    [name |-> name, kind |-> "group", paragraphs |-> <<>>, rows |-> <<>>,
     shapes |-> shapes, raises |-> FALSE, readable |-> 0]

\* the shapes of the documents: text boxes (two of them may carry the same
\* name), a table, and a group holding a text box and a group
DocShapes ==
    {TextShape("Title 1", <<p>>) : p \in DocParagraphs}
    \cup {TextShape("TextBox 2", << <<RunB>>, <<RunA>> >>)}
    \cup {TableShape("Table 3", << << << <<RunA>> >> >> >>)}
    \cup {GroupShape("Group 4", <<TextShape("TextBox 5", << <<RunB>> >>),
                                  GroupShape("Group 6",
                                    <<TextShape("TextBox 7", << <<RunA>> >>)>>)>>)}

\* every run located in a shape: text frame, table cells, group members
RECURSIVE RunsOf(_)
RunsOf(shape) ==
    {shape.paragraphs[i][j] : <<i, j>> \in
        UNION {{i} \X DOMAIN shape.paragraphs[i] : i \in DOMAIN shape.paragraphs}}
    \cup {TableParagraphs(shape)[i][j] : <<i, j>> \in
        UNION {{i} \X DOMAIN TableParagraphs(shape)[i] : i \in DOMAIN TableParagraphs(shape)}}
    \cup UNION {RunsOf(shape.shapes[i]) : i \in DOMAIN shape.shapes}

Init ==
    /\ doc_theme \in DocThemes
    /\ doc_runs = {}
    /\ doc_shapes = EmptyBag
    /\ doc_pc = "slides"
    /\ slide_num = 1
    /\ n_shapes = 0
    /\ font_usage = EmptyDict
    /\ all_fonts_info = EmptyDict
    /\ ppta_font_usage = EmptyDict
    /\ ppta_all_fonts = {}
    /\ font_to_slides = EmptyDict
    /\ ppta_font_to_slides = EmptyDict
    /\ system_fonts = get_system_fonts({Calibri})
    /\ font_report = NoReport
    /\ ppta_font_report = NoReport
    /\ log = {}
    /\ ppta_log = {}
    /\ DumpIdle
    /\ MarksIdle
    /\ AppIdle
    /\ ThemeIdle
    /\ ParaIdle

\* one iteration of `for shape in slide.shapes` of analyze_fonts, in
\* qtppta.py and in ppta.py
AnalyzeShapeFonts(shape) ==
    /\ doc_pc = "slides"
    /\ n_shapes < MaxShapes
    /\ n_shapes' = n_shapes + 1
    /\ doc_runs' = doc_runs \cup ({slide_num} \X RunsOf(shape))
    /\ doc_shapes' = doc_shapes (+) SetToBag({<<slide_num, shape>>})
    /\ LET shape_fonts == analyze_shape_fonts(shape)
       IN  IF shape_fonts # EmptyDict
           THEN /\ font_usage' = store_shape_fonts(font_usage, slide_num,
                                                   ShapeType(shape), shape_fonts)
                /\ all_fonts_info' = merge_fonts(all_fonts_info, shape_fonts)
           ELSE UNCHANGED <<font_usage, all_fonts_info>>
    /\ LET shape_fonts == ppta_shape_fonts(shape)
       IN  IF shape_fonts # {}
           THEN /\ ppta_font_usage' = ppta_store_shape_fonts(ppta_font_usage, slide_num,
                                                             ShapeType(shape), shape_fonts)
                /\ ppta_all_fonts' = ppta_all_fonts \cup shape_fonts
           ELSE UNCHANGED <<ppta_font_usage, ppta_all_fonts>>
    /\ log' = log \cup analyze_shape_log(shape)
    /\ ppta_log' = ppta_log \cup ppta_shape_log(slide_num, shape)
    /\ UNCHANGED <<doc_theme, doc_pc, slide_num, font_to_slides, ppta_font_to_slides,
                   system_fonts, font_report, ppta_font_report, themeVars, paraVars, markVars, appVars>>

\* the two font analyses alone
AnalyzeShape(shape) == AnalyzeShapeFonts(shape) /\ UNCHANGED dumpVars

\* `for slide_num, slide in enumerate(prs.slides, start=1)`: the next slide
EnumerateSlide ==
    /\ doc_pc = "slides"
    /\ slide_num < MaxSlides
    /\ slide_num' = slide_num + 1
    /\ UNCHANGED <<doc_theme, doc_runs, doc_shapes, doc_pc, n_shapes, font_usage, all_fonts_info, ppta_font_usage,
                   ppta_all_fonts, font_to_slides, ppta_font_to_slides,
                   system_fonts, font_report, ppta_font_report, themeVars, paraVars, markVars, appVars>>

NextSlide == EnumerateSlide /\ UNCHANGED <<log, ppta_log, dumpVars>>

\* analyze_fonts returns font_usage and all_fonts_info
ReturnUsage ==
    /\ doc_pc = "slides"
    /\ doc_pc' = "analyzed"
    /\ UNCHANGED <<doc_theme, doc_runs, doc_shapes, slide_num, n_shapes, font_usage, all_fonts_info,
                   ppta_font_usage, ppta_all_fonts, font_to_slides, ppta_font_to_slides,
                   system_fonts, font_report, ppta_font_report, log, ppta_log,
                   themeVars, paraVars, markVars, appVars>>

ReturnFontUsage == ReturnUsage /\ UNCHANGED dumpVars

\* format_font_report (qtppta.py) and print_font_report (ppta.py) build the rows
FormatFontReport ==
    /\ doc_pc = "analyzed"
    /\ doc_pc' = "reported"
    /\ font_report' = format_font_report(font_usage, system_fonts, doc_theme)
    /\ font_to_slides' = font_report'.font_to_slides
    /\ ppta_font_report' = print_font_report(ppta_font_usage, system_fonts, doc_theme)
    /\ ppta_font_to_slides' = ppta_font_report'.font_to_slides
    /\ small_font_marks' = format_small_fonts(font_to_slides', font_size_threshold)
    /\ UNCHANGED <<doc_theme, doc_runs, doc_shapes, slide_num, n_shapes, font_usage, all_fonts_info,
                   ppta_font_usage, ppta_all_fonts, system_fonts, log, ppta_log,
                   themeVars, paraVars, dumpVars, font_size_threshold, appVars>>

Next ==
    \/ \E shape \in DocShapes : AnalyzeShape(shape)
    \/ NextSlide
    \/ ReturnFontUsage
    \/ FormatFontReport

Spec == Init /\ [][Next]_vars

(***************************************************************************)
(* One document and one font inventory: the font report                    *)
(***************************************************************************)
ArialLower       == <<"a","r","i","a","l">>
ArialBoldHyphen  == <<"A","r","i","a","l","-","B","o","l","d">>
ArialBoldSpace   == <<"A","r","i","a","l"," ","B","o","l","d">>
ArialBoldJoined  == <<"A","r","i","a","l","B","o","l","d">>
TimesNewRoman    == <<"T","i","m","e","s"," ","N","e","w"," ","R","o","m","a","n">>
TimesNewRomanPadded == <<"T","i","m","e","s"," ","N","e","w"," ","R","o","m","a","n"," ">>
TimesLowerPadded == <<"t","i","m","e","s"," ","n","e","w"," ","r","o","m","a","n"," ">>
Zapfino          == <<"Z","a","p","f","i","n","o">>

\* the font names found on the system
Inventories ==
    { {ArialLower, TimesNewRoman},
      {ArialBoldSpace, ArialBoldJoined},
      {UNKNOWN, TimesNewRomanPadded} }

\* text boxes of one run each, every one under its own name
ReportShapes ==
    { TextShape("Title 1",   << <<[name |-> Arial, text |-> <<"H","i">>, size |-> 228600, raises |-> FALSE]>> >>),
      TextShape("Content 2", << <<[name |-> ArialBoldHyphen, text |-> <<"H","i">>, size |-> NoSize, raises |-> FALSE]>> >>),
      TextShape("Content 3", << <<[name |-> TimesLowerPadded, text |-> <<"H","i">>, size |-> 127000, raises |-> FALSE]>> >>),
      TextShape("Content 4", << <<[name |-> None, text |-> <<"H","i">>, size |-> 127000, raises |-> FALSE]>> >>),
      TextShape("Footer 5",  << <<[name |-> Zapfino, text |-> <<" ">>, size |-> NoSize, raises |-> FALSE]>> >>) }

\* a readable theme, a document without theme part, a theme that does not parse
ReadableTheme ==
    [part |-> "ok",
     fontScheme |-> [present |-> TRUE,
                     majorFont |-> [present |-> TRUE, latin |-> ArialBoldHyphen, ea |-> None,
                                    cs |-> None, sym |-> None, other |-> 0],
                     minorFont |-> [present |-> TRUE, latin |-> Arial, ea |-> None,
                                    cs |-> None, sym |-> None, other |-> 0]]]
ReportThemes ==
    { ReadableTheme,
      [part |-> "missing", fontScheme |-> NoScheme],
      [part |-> "malformed", fontScheme |-> NoScheme] }

InitReport ==
    /\ doc_theme \in ReportThemes
    /\ system_fonts \in {get_system_fonts(font_names) : font_names \in Inventories}
    /\ doc_runs = {}
    /\ doc_shapes = EmptyBag
    /\ doc_pc = "slides"
    /\ slide_num = 1
    /\ n_shapes = 0
    /\ font_usage = EmptyDict
    /\ all_fonts_info = EmptyDict
    /\ ppta_font_usage = EmptyDict
    /\ ppta_all_fonts = {}
    /\ font_to_slides = EmptyDict
    /\ ppta_font_to_slides = EmptyDict
    /\ font_report = NoReport
    /\ ppta_font_report = NoReport
    /\ log = {}
    /\ ppta_log = {}
    /\ DumpIdle
    /\ MarksIdle
    /\ AppIdle
    /\ ThemeIdle
    /\ ParaIdle

NextReport ==
    \/ \E shape \in ReportShapes : AnalyzeShape(shape)
    \/ NextSlide
    \/ ReturnFontUsage
    \/ FormatFontReport

SpecReport == InitReport /\ [][NextReport]_vars

(***************************************************************************)
(* One document with runs without typeface and a size threshold: the       *)
(* records of qtppta.py at every level and the small-font marks            *)
(***************************************************************************)
Run(name, text, size) == [name |-> name, text |-> text, size |-> size, raises |-> FALSE]

\* what the threshold entry of the window may hold: nothing that parses,
\* zero, a negative number, 18 and 10
ThresholdEntries ==
    { [is_int |-> FALSE, value |-> 0], [is_int |-> TRUE, value |-> 0],
      [is_int |-> TRUE, value |-> 0 - 5], [is_int |-> TRUE, value |-> 18],
      [is_int |-> TRUE, value |-> 10] }

\* sizes of 24, 18 and 10 points on visible and on whitespace-only runs, of
\* named and of unnamed typefaces, in text boxes (two of one name), a table
\* and nested groups
DeckShapes ==
    { TextShape("Title 1", << <<Run(Calibri, <<"H","i">>, 304800)>> >>),
      TextShape("Body 2", << <<Run(Calibri, <<"H","i">>, 228600),
                               Run(Georgia, <<" ">>, 127000)>> >>),
      TextShape("Body 2", << <<Run(None, <<"H","i">>, 127000)>>,
                             <<Run(None, <<" ">>, 228600)>> >>),
      TableShape("Table 3", << << << <<Run(None, <<" ">>, 127000)>>,
                                     <<Run(Calibri, <<"H","i">>, NoSize)>> >> >> >>),
      GroupShape("Group 4",
                 <<TextShape("TextBox 5", << <<Run(Georgia, <<"H","i">>, 127000)>> >>),
                   GroupShape("Group 6",
                       <<TextShape("TextBox 7", << <<Run(None, <<"H","i">>, NoSize)>> >>)>>)>>) }

InitDeck ==
    /\ font_size_threshold \in {parse_threshold(entry) : entry \in ThresholdEntries}
    /\ small_font_marks = NoMarks
    /\ doc_theme = [part |-> "missing", fontScheme |-> NoScheme]
    /\ system_fonts = get_system_fonts({Calibri})
    /\ doc_runs = {}
    /\ doc_shapes = EmptyBag
    /\ doc_pc = "slides"
    /\ slide_num = 1
    /\ n_shapes = 0
    /\ font_usage = EmptyDict
    /\ all_fonts_info = EmptyDict
    /\ ppta_font_usage = EmptyDict
    /\ ppta_all_fonts = {}
    /\ font_to_slides = EmptyDict
    /\ ppta_font_to_slides = EmptyDict
    /\ font_report = NoReport
    /\ ppta_font_report = NoReport
    /\ log = {}
    /\ ppta_log = {}
    /\ DumpIdle
    /\ AppIdle
    /\ ThemeIdle
    /\ ParaIdle

NextDeck ==
    \/ \E shape \in DeckShapes : AnalyzeShape(shape)
    \/ NextSlide
    \/ ReturnFontUsage
    \/ FormatFontReport

SpecDeck == InitDeck /\ [][NextDeck]_vars

(***************************************************************************)
(* One document with elements that cannot be read, analyzed by qtppta.py   *)
(* and ppta.py and converted by pptdump.py                                 *)
(***************************************************************************)
RunG == [name |-> Georgia, text |-> <<"H","i">>, size |-> 127000, raises |-> FALSE]

\* a shape whose reading raises after `readable` paragraphs, cells or members
Raising(shape, readable) == [shape EXCEPT !.raises = TRUE, !.readable = readable]

\* a readable shape; a paragraph, a cell and a group member with a run that
\* raises; a shape that raises at its second paragraph; a group with a member
\* that raises at once
FailShapes ==
    { TextShape("Title 1", << <<RunA>> >>),
      TextShape("Title 1", << <<RunG, BadRun, RunA>> >>),
      Raising(TextShape("Title 1", << <<RunG>>, <<RunA>> >>), 1),
      TableShape("Table 3", << << << <<BadRun>>, <<RunG>> >> >> >>),
      GroupShape("Group 4", <<Raising(TextShape("TextBox 5", << <<RunA>> >>), 0),
                              TextShape("TextBox 6", << <<BadRun, RunB>> >>)>>) }

InitFail ==
    /\ doc_theme = [part |-> "missing", fontScheme |-> NoScheme]
    /\ system_fonts = get_system_fonts({Calibri})
    /\ doc_runs = {}
    /\ doc_shapes = EmptyBag
    /\ doc_pc = "slides"
    /\ slide_num = 1
    /\ n_shapes = 0
    /\ font_usage = EmptyDict
    /\ all_fonts_info = EmptyDict
    /\ ppta_font_usage = EmptyDict
    /\ ppta_all_fonts = {}
    /\ font_to_slides = EmptyDict
    /\ ppta_font_to_slides = EmptyDict
    /\ font_report = NoReport
    /\ ppta_font_report = NoReport
    /\ log = {}
    /\ ppta_log = {}
    /\ DumpIdle
    /\ MarksIdle
    /\ AppIdle
    /\ ThemeIdle
    /\ ParaIdle

CanBeRead(run) == ~run.raises

\* what a failure-free reading of the shape meets: the paragraphs, cells and
\* members before the point where reading the shape raises, without the runs
\* that raise
RECURSIVE ReadablePart(_)
ReadablePart(shape) ==
    LET paragraphs == ReadBeforeRaise(shape, ParagraphsOf(shape))
        kept == [i \in 1..Len(paragraphs) |-> SelectSeq(paragraphs[i], CanBeRead)]
        members == IF shape.kind = "group" THEN ReadBeforeRaise(shape, shape.shapes) ELSE <<>>
    IN  [name |-> shape.name, kind |-> shape.kind,
         paragraphs |-> IF shape.kind = "text" THEN kept ELSE <<>>,
         rows |-> IF shape.kind = "table" THEN << <<kept>> >> ELSE <<>>,
         shapes |-> [i \in 1..Len(members) |-> ReadablePart(members[i])],
         raises |-> FALSE, readable |-> 0]

\* one iteration of `for shape in slide.shapes` of both programs on the
\* document without what fails: qtppta.py is left with what it reads of a
\* shape before the raise, ppta.py with nothing of a shape whose text frame
\* or table raises
analyze_readable(usage, slide, shape) ==
    LET shape_fonts == analyze_shape_fonts(ReadablePart(shape))
        ppta_fonts_ == IF shape.raises /\ shape.kind # "group" THEN {}
                       ELSE ppta_shape_fonts(ReadablePart(shape))
    IN  [font_usage |->
             IF shape_fonts # EmptyDict
             THEN store_shape_fonts(usage.font_usage, slide, ShapeType(shape), shape_fonts)
             ELSE usage.font_usage,
         all_fonts_info |->
             IF shape_fonts # EmptyDict THEN merge_fonts(usage.all_fonts_info, shape_fonts)
             ELSE usage.all_fonts_info,
         ppta_font_usage |->
             IF ppta_fonts_ # {}
             THEN ppta_store_shape_fonts(usage.ppta_font_usage, slide, ShapeType(shape),
                                         ppta_fonts_)
             ELSE usage.ppta_font_usage,
         ppta_all_fonts |-> usage.ppta_all_fonts \cup ppta_fonts_]

\* the slide being read gets one more shape
WithShape(slides, shape) ==
    [slides EXCEPT ![Len(slides)].shapes = Append(slides[Len(slides)].shapes, shape)]

\* one iteration of `for shape in slide.shapes`, in analyze_fonts of both
\* programs and in pptdump.slide_to_dict
ReadShape(shape) ==
    /\ AnalyzeShapeFonts(shape)
    /\ doc_slides' = WithShape(doc_slides, shape)
    /\ slide_shapes' = Append(slide_shapes, shape_entry(shape))
    /\ failure_free' = analyze_readable(failure_free, slide_num, shape)
    /\ UNCHANGED pres_slides

\* the shapes of the slide are through: slide_to_dict returns and the loops
\* over the slides go on
ReadNextSlide ==
    /\ EnumerateSlide
    /\ pres_slides' = Append(pres_slides, slide_entry(slide_num, slide_shapes, FALSE))
    /\ slide_shapes' = <<>>
    /\ doc_slides' = Append(doc_slides, NewSlide)
    /\ UNCHANGED <<log, ppta_log, failure_free>>

\* enumerating the shapes of the slide raises: the except of the slide in
\* analyze_fonts and in presentation_to_dict, then the next slide
SlideRaises ==
    /\ EnumerateSlide
    /\ log' = log \cup slide_log(slide_num)
    /\ ppta_log' = ppta_log \cup slide_log(slide_num)
    /\ pres_slides' = Append(pres_slides, slide_entry(slide_num, slide_shapes, TRUE))
    /\ slide_shapes' = <<>>
    /\ doc_slides' = Append([doc_slides EXCEPT ![Len(doc_slides)].raises = TRUE], NewSlide)
    /\ UNCHANGED failure_free

\* the last slide is through: analyze_fonts and presentation_to_dict return
ReturnAll ==
    /\ ReturnUsage
    /\ pres_slides' = Append(pres_slides, slide_entry(slide_num, slide_shapes, FALSE))
    /\ UNCHANGED <<doc_slides, slide_shapes, failure_free>>

NextFail ==
    \/ \E shape \in FailShapes : ReadShape(shape)
    \/ ReadNextSlide
    \/ SlideRaises
    \/ ReturnAll

SpecFail == InitFail /\ [][NextFail]_vars

(***************************************************************************)
(* One process: PowerPointAnalyzerGUI.analyze of qtppta.py, main of        *)
(* ppta.py and main of pptdump.py                                          *)
(***************************************************************************)
MaxCalls == 3       \* clicks on Analyze in one session of the window

\* the sections in the order the handler of the program runs them
Sections(prog) ==
    IF prog = "qtppta" THEN <<"summary", "hidden", "effects", "fonts">>
    ELSE IF prog = "ppta" THEN <<"hidden", "effects", "fonts">>
    ELSE <<"dump">>

\* two documents that open and are read to the end
DeckA ==
    [path |-> "a.pptx", exists |-> TRUE, opens |-> TRUE, raises_in |-> "none",
     items |-> << <<1, TextShape("Title 1", << <<Run(Calibri, <<"H","i">>, 228600)>> >>)>>,
                  <<2, TextShape("Body 2", << <<Run(Georgia, <<"H","i">>, 127000)>> >>)>> >>]
DeckB ==
    [path |-> "b.pptx", exists |-> TRUE, opens |-> TRUE, raises_in |-> "none",
     items |-> << <<1, TextShape("Title 1", << <<Run(None, <<"H","i">>, 127000)>> >>)>>,
                  <<1, TextShape("Body 2", << <<Run(Calibri, <<" ">>, 304800)>> >>)>> >>]

\* a path that names no file, a file that Presentation() cannot open, and
\* documents that open and make one section raise outside the loops that
\* catch
MissingFile == [NoFile EXCEPT !.path = "missing.pptx"]
CorruptFile == [NoFile EXCEPT !.path = "corrupt.pptx", !.exists = TRUE]
FailsIn(sec) == [DeckA EXCEPT !.path = "partly.pptx", !.raises_in = sec]
Files == {NoFile, MissingFile, CorruptFile, DeckA, DeckB, FailsIn("effects")}

\* what ppta.py and pptdump.py may be started on
Arguments == (Files \ {NoFile}) \cup {FailsIn("fonts"), FailsIn("dump")}

\* the fonts found installed on the machine of the process
InstalledFonts == {Calibri}

\* the section raises: at its Presentation(pptx_path), or later
Raises(file, sec) == ~file.opens \/ file.raises_in = sec

\* what a section does outside the process up to its raise or its end:
\* every section loads the document itself, generate_font_report after
\* get_system_fonts() and once more inside analyze_fonts
SectionEvents(file, sec) ==
    IF sec = "fonts"
    THEN IF ~file.opens THEN <<"inventory", "load">>
         ELSE IF file.raises_in = sec THEN <<"inventory", "load", "load">>
         ELSE <<"inventory", "load", "load", "resolve">>
    ELSE <<"load">>

\* qtppta.analyze_fonts / ppta.analyze_fonts: all_fonts_info, all_fonts
RECURSIVE all_fonts_loop(_, _)
all_fonts_loop(info, items) ==
    IF items = <<>> THEN info
    ELSE all_fonts_loop(merge_fonts(info, analyze_shape_fonts(Head(items)[2])), Tail(items))

RECURSIVE ppta_analyze_fonts_loop(_, _)
ppta_analyze_fonts_loop(usage, items) ==
    IF items = <<>> THEN usage
    ELSE LET shape_fonts == ppta_shape_fonts(Head(items)[2])
         IN  ppta_analyze_fonts_loop(
                 IF shape_fonts # {}
                 THEN ppta_store_shape_fonts(usage, Head(items)[1], ShapeType(Head(items)[2]),
                                             shape_fonts)
                 ELSE usage,
                 Tail(items))

RECURSIVE ppta_all_fonts_loop(_, _)
ppta_all_fonts_loop(all_fonts, items) ==
    IF items = <<>> THEN all_fonts
    ELSE ppta_all_fonts_loop(all_fonts \cup ppta_shape_fonts(Head(items)[2]), Tail(items))

\* analyze_fonts going on from the index of the analysis before
analyze_fonts_retaining(items) == analyze_fonts_loop(font_usage, items)

\* qtppta.analyze_fonts: `font_usage = {}`, then the loop over the slides
analyze_fonts(items) == analyze_fonts_loop(EmptyDict, items)

\* a section of a report: which section of which document, in which format,
\* and for the fonts section its tables, counts and marks
ReportSection(sec, file, report, marks) ==
    [section |-> sec, path |-> file.path, format |-> "markdown",
     report |-> report, marks |-> marks]

\* markdown.markdown(output): the sections as HTML
markdown(out) == [i \in DOMAIN out |-> [out[i] EXCEPT !.format = "html"]]

\* the check box test with the effects box never taken as checked
isChecked_but_effects(sec, boxes) == sec \in boxes \ {"effects"}

\* `if self.summary_check.isChecked()` and the three tests after it
isChecked(sec, boxes) == sec \in boxes

appFonts == <<font_usage, all_fonts_info, font_to_slides, font_report, small_font_marks>>
pptaFonts == <<ppta_font_usage, ppta_all_fonts, ppta_font_to_slides, ppta_font_report>>
appFrame == <<themeVars, paraVars, dumpVars, doc_theme, doc_runs, doc_shapes, doc_pc,
              slide_num, n_shapes, log, ppta_log, font_size_threshold, program>>

InitApp ==
    /\ program \in {"qtppta", "ppta", "pptdump"}
    /\ file_entry \in IF program = "qtppta" THEN {NoFile} ELSE Arguments
    /\ checked = {Sections(program)[i] : i \in DOMAIN Sections(program)}
    /\ font_size_threshold = parse_threshold([is_int |-> FALSE, value |-> 0])
    /\ small_font_marks = NoMarks
    /\ app_pc = "idle"
    /\ section = 1
    /\ output = <<>>
    /\ results_text = <<>>
    /\ status_bar = ""
    /\ console = <<>>
    /\ failures_reported = 0
    /\ events = <<>>
    /\ calls = 0
    /\ pptx_path = NoFile
    /\ history = <<>>
    /\ doc_theme = [part |-> "missing", fontScheme |-> NoScheme]
    /\ doc_runs = {}
    /\ doc_shapes = EmptyBag
    /\ doc_pc = "slides"
    /\ slide_num = 1
    /\ n_shapes = 0
    /\ font_usage = EmptyDict
    /\ all_fonts_info = EmptyDict
    /\ ppta_font_usage = EmptyDict
    /\ ppta_all_fonts = {}
    /\ font_to_slides = EmptyDict
    /\ ppta_font_to_slides = EmptyDict
    /\ system_fonts = <<>>
    /\ font_report = NoReport
    /\ ppta_font_report = NoReport
    /\ log = {}
    /\ ppta_log = {}
    /\ DumpIdle
    /\ ThemeIdle
    /\ ParaIdle

\* browse_file: a file picked in the dialog
BrowseFile(file) ==
    /\ program = "qtppta"
    /\ app_pc = "idle"
    /\ calls < MaxCalls
    /\ file.exists
    /\ file_entry' = file
    /\ results_text' = <<>>
    /\ status_bar' = ""
    /\ UNCHANGED <<checked, app_pc, section, output, console, failures_reported, events,
                   calls, pptx_path, history, system_fonts, appFonts, pptaFonts, appFrame>>

\* the path typed into the file entry
EditPath(file) ==
    /\ program = "qtppta"
    /\ app_pc = "idle"
    /\ calls < MaxCalls
    /\ file_entry' = file
    /\ UNCHANGED <<checked, app_pc, section, output, results_text, status_bar, console,
                   failures_reported, events, calls, pptx_path, history, system_fonts,
                   appFonts, pptaFonts, appFrame>>

\* a click on one of the four check boxes
ToggleCheck(sec) ==
    /\ program = "qtppta"
    /\ app_pc = "idle"
    /\ calls < MaxCalls
    /\ checked' = IF sec \in checked THEN checked \ {sec} ELSE checked \cup {sec}
    /\ UNCHANGED <<file_entry, app_pc, section, output, results_text, status_bar, console,
                   failures_reported, events, calls, pptx_path, history, system_fonts,
                   appFonts, pptaFonts, appFrame>>

\* PowerPointAnalyzerGUI.analyze up to the try: the two early returns, or
\* the results cleared and "Analyzing..." shown
AnalyzeBegin ==
    /\ program = "qtppta"
    /\ app_pc = "idle"
    /\ calls < MaxCalls
    /\ calls' = calls + 1
    /\ pptx_path' = file_entry
    /\ history' = Append(history, [path |-> file_entry.path, fonts |-> "fonts" \in checked])
    /\ events' = <<>>
    /\ IF file_entry.path = ""
       THEN /\ status_bar' = "Please select a file first"
            /\ failures_reported' = 0
            /\ UNCHANGED <<results_text, output, app_pc, section>>
       ELSE IF ~file_entry.exists
       THEN /\ status_bar' = "Selected file does not exist"
            /\ failures_reported' = 1
            /\ UNCHANGED <<results_text, output, app_pc, section>>
       ELSE /\ results_text' = <<>>
            /\ status_bar' = "Analyzing..."
            /\ failures_reported' = 0
            /\ output' = <<>>
            /\ section' = 1
            /\ app_pc' = "try"
    /\ UNCHANGED <<file_entry, checked, console, system_fonts, appFonts, pptaFonts, appFrame>>

\* one of the four `if ...isChecked(): output += generate_...(file_path)`:
\* the section is skipped, or appended to output, or it raises and the
\* except of analyze shows the error and logs it
AnalyzeSection ==
    /\ program = "qtppta"
    /\ app_pc = "try"
    /\ section <= Len(Sections(program))
    /\ LET sec == Sections(program)[section]
       IN  IF ~isChecked(sec, checked)
           THEN /\ section' = section + 1
                /\ UNCHANGED <<output, status_bar, failures_reported, events, app_pc,
                               system_fonts, appFonts>>
           ELSE IF Raises(pptx_path, sec)
           THEN /\ events' = events \o SectionEvents(pptx_path, sec)
                /\ status_bar' = "Error"
                /\ failures_reported' = failures_reported + 1
                /\ app_pc' = "idle"
                /\ system_fonts' = IF sec = "fonts" THEN get_system_fonts(InstalledFonts)
                                   ELSE system_fonts
                /\ UNCHANGED <<output, section, appFonts>>
           ELSE IF sec = "fonts"
           THEN /\ events' = events \o SectionEvents(pptx_path, sec)
                /\ system_fonts' = get_system_fonts(InstalledFonts)
                /\ font_usage' = analyze_fonts(pptx_path.items)
                /\ all_fonts_info' = all_fonts_loop(EmptyDict, pptx_path.items)
                /\ font_report' = format_font_report(font_usage', system_fonts', doc_theme)
                /\ font_to_slides' = font_report'.font_to_slides
                /\ small_font_marks' = format_small_fonts(font_to_slides', font_size_threshold)
                /\ output' = Append(output, ReportSection(sec, pptx_path, font_report',
                                                          small_font_marks'))
                /\ section' = section + 1
                /\ UNCHANGED <<status_bar, failures_reported, app_pc>>
           ELSE /\ events' = events \o SectionEvents(pptx_path, sec)
                /\ output' = Append(output, ReportSection(sec, pptx_path, NoReport, NoMarks))
                /\ section' = section + 1
                /\ UNCHANGED <<status_bar, failures_reported, app_pc, system_fonts, appFonts>>
    /\ UNCHANGED <<file_entry, checked, results_text, console, calls, pptx_path, history,
                   pptaFonts, appFrame>>

\* the end of the try of analyze: the report shown, "Analysis complete"
AnalyzeComplete ==
    /\ program = "qtppta"
    /\ app_pc = "try"
    /\ section > Len(Sections(program))
    /\ results_text' = markdown(output)
    /\ status_bar' = "Analysis complete"
    /\ app_pc' = "idle"
    /\ UNCHANGED <<file_entry, checked, section, output, console, failures_reported, events,
                   calls, pptx_path, history, system_fonts, appFonts, pptaFonts, appFrame>>

\* ppta.main up to the try: the file is not there, or the sections begin
PptaMain ==
    /\ program = "ppta"
    /\ app_pc = "idle"
    /\ calls = 0
    /\ calls' = 1
    /\ pptx_path' = file_entry
    /\ IF ~file_entry.exists
       THEN /\ failures_reported' = 1
            /\ UNCHANGED app_pc
       ELSE /\ app_pc' = "try"
            /\ UNCHANGED failures_reported
    /\ UNCHANGED <<file_entry, checked, section, output, results_text, status_bar, console,
                   events, history, system_fonts, appFonts, pptaFonts, appFrame>>

\* generate_hidden_slides_report, generate_effects_report and
\* generate_font_report of ppta.main: the section is printed, or it raises
\* and the except of main logs the error
PptaSection ==
    /\ program = "ppta"
    /\ app_pc = "try"
    /\ section <= Len(Sections(program))
    /\ LET sec == Sections(program)[section]
       IN  IF Raises(pptx_path, sec)
           THEN /\ events' = events \o SectionEvents(pptx_path, sec)
                /\ failures_reported' = failures_reported + 1
                /\ app_pc' = "idle"
                /\ system_fonts' = IF sec = "fonts" THEN get_system_fonts(InstalledFonts)
                                   ELSE system_fonts
                /\ UNCHANGED <<console, section, pptaFonts>>
           ELSE IF sec = "fonts"
           THEN /\ events' = events \o SectionEvents(pptx_path, sec)
                /\ system_fonts' = get_system_fonts(InstalledFonts)
                /\ ppta_font_usage' = ppta_analyze_fonts_loop(EmptyDict, pptx_path.items)
                /\ ppta_all_fonts' = ppta_all_fonts_loop({}, pptx_path.items)
                /\ ppta_font_report' = print_font_report(ppta_font_usage', system_fonts',
                                                         doc_theme)
                /\ ppta_font_to_slides' = ppta_font_report'.font_to_slides
                /\ console' = Append(console, ReportSection(sec, pptx_path, ppta_font_report',
                                                            NoMarks))
                /\ section' = section + 1
                /\ UNCHANGED <<failures_reported, app_pc>>
           ELSE /\ events' = events \o SectionEvents(pptx_path, sec)
                /\ console' = Append(console, ReportSection(sec, pptx_path, NoReport, NoMarks))
                /\ section' = section + 1
                /\ UNCHANGED <<failures_reported, app_pc, system_fonts, pptaFonts>>
    /\ UNCHANGED <<file_entry, checked, output, results_text, status_bar, calls, pptx_path,
                   history, appFonts, appFrame>>

\* ppta.main returns after the three sections
PptaReturn ==
    /\ program = "ppta"
    /\ app_pc = "try"
    /\ section > Len(Sections(program))
    /\ app_pc' = "idle"
    /\ UNCHANGED <<file_entry, checked, section, output, results_text, status_bar, console,
                   failures_reported, events, calls, pptx_path, history, system_fonts,
                   appFonts, pptaFonts, appFrame>>

\* pptdump.main: the file is not there, or presentation_to_dict raises and
\* the error goes to stderr, or the dump is printed
PptdumpMain ==
    /\ program = "pptdump"
    /\ app_pc = "idle"
    /\ calls = 0
    /\ calls' = 1
    /\ pptx_path' = file_entry
    /\ IF ~file_entry.exists
       THEN /\ failures_reported' = 1
            /\ UNCHANGED <<console, events>>
       ELSE IF Raises(file_entry, "dump")
       THEN /\ events' = SectionEvents(file_entry, "dump")
            /\ failures_reported' = 1
            /\ UNCHANGED console
       ELSE /\ events' = SectionEvents(file_entry, "dump")
            /\ console' = <<ReportSection("dump", file_entry, NoReport, NoMarks)>>
            /\ UNCHANGED failures_reported
    /\ UNCHANGED <<file_entry, checked, app_pc, section, output, results_text, status_bar,
                   history, system_fonts, appFonts, pptaFonts, appFrame>>

NextApp ==
    \/ \E file \in Files : BrowseFile(file)
    \/ \E file \in Files : EditPath(file)
    \/ \E sec \in {"summary", "hidden", "effects", "fonts"} : ToggleCheck(sec)
    \/ AnalyzeBegin
    \/ AnalyzeSection
    \/ AnalyzeComplete
    \/ PptaMain
    \/ PptaSection
    \/ PptaReturn
    \/ PptdumpMain

SpecApp == InitApp /\ [][NextApp]_vars

\* sessions of the window with at most ShortSession clicks on Analyze
ShortSession == 2

NextAppShort ==
    \/ calls < ShortSession /\ \E file \in Files : BrowseFile(file)
    \/ calls < ShortSession /\ \E file \in Files : EditPath(file)
    \/ calls < ShortSession
       /\ \E sec \in {"summary", "hidden", "effects", "fonts"} : ToggleCheck(sec)
    \/ calls < ShortSession /\ AnalyzeBegin
    \/ AnalyzeSection
    \/ AnalyzeComplete
    \/ PptaMain
    \/ PptaSection
    \/ PptaReturn
    \/ PptdumpMain

\* analyze runs to its end once begun: the handler is one call on the one
\* thread of the window, and nothing else runs before it returns
SpecAppFair ==
    InitApp /\ [][NextAppShort]_vars /\ WF_vars(AnalyzeSection) /\ WF_vars(AnalyzeComplete)

(***************************************************************************)
(* Properties of theme expansion (SpecTheme)                               *)
(***************************************************************************)
\* the typeface the scheme registers for a theme code, None when the theme,
\* the scheme, the major/minor element or the slot is absent
SchemeSlot(th, code) ==
    IF th.part # "ok" \/ ~th.fontScheme.present THEN None
    ELSE LET e == IF code \in {MJ_LT, MJ_EA, MJ_CS, MJ_SYM}
                  THEN th.fontScheme.majorFont ELSE th.fontScheme.minorFont
         IN  IF ~e.present THEN None
             ELSE CASE code \in {MJ_LT, MN_LT} -> e.latin
                    [] code \in {MJ_EA, MN_EA} -> e.ea
                    [] code \in {MJ_CS, MN_CS} -> e.cs
                    [] code \in {MJ_SYM, MN_SYM} -> e.sym

\* C3: for each of the eight theme codes whose slot the scheme defines, both
\* ppta.resolve_theme_font and pptdump.resolve_theme_font return exactly that
\* slot's typeface, whatever the other slots of the scheme are.
C3_DefinedSlotReturned ==
    (theme_code \in THEME_FONT_CODES /\ SchemeSlot(theme, theme_code) # None) =>
        /\ "ppta" \in returned => ppta_resolved = SchemeSlot(theme, theme_code)
        /\ "pptdump" \in returned => dump_resolved = SchemeSlot(theme, theme_code)

\* C4: for each of the eight theme codes whose slot is absent, both expansions
\* yield the unresolved outcome (None, or the text "Unknown"), never a typeface
\* name or another text.
C4_AbsentSlotUnresolved ==
    (theme_code \in THEME_FONT_CODES /\ SchemeSlot(theme, theme_code) = None) =>
        /\ "ppta" \in returned => ppta_resolved = None
        /\ "pptdump" \in returned => dump_resolved \in {None, Unknown_}

(***************************************************************************)
(* Properties of one paragraph (SpecPara)                                  *)
(***************************************************************************)
\* a typeface name that is neither a "+..." code nor an "@..." fallback marker
IsLiteralName(n) == Truthy(n) /\ n[1] \notin {"+", "@"}

\* a name that begins, case-insensitively, with an internal-default marker
BeginsWithMarker(n) ==
    Truthy(n) /\ \E marker \in INTERNAL_FONT_MARKERS : StartsWith(Lower(n), marker)

OwnNames == {run.name : run \in {r \in seen : ~r.raises}}

\* C1: a run whose own font name is a literal typeface name is recorded under
\* exactly that name by qtppta.analyze_paragraph_fonts and by the run loop of
\* ppta.analyze_fonts, whatever defaults the chain around it declares; no key
\* other than an own font name (or "(unknown)") is recorded.
C1_LiteralNameRecorded ==
    /\ \A run \in seen : (~run.raises /\ IsLiteralName(run.name)) =>
          /\ run.name \in Keys(fonts)
          /\ run.name \in ppta_fonts
          /\ para_pc = "returned" => run.name \in Keys(paragraph_fonts)
    /\ Keys(fonts) \subseteq OwnNames
    /\ ppta_fonts \subseteq OwnNames
    /\ Keys(paragraph_fonts) \subseteq OwnNames \cup {UNKNOWN}

C1_Witness ==
    /\ para_pc = "returned"
    /\ chain[1] = Georgia /\ chain[4] = Georgia
    /\ \E run \in seen : run.name = Calibri
    /\ Calibri \in Keys(paragraph_fonts)
    /\ Calibri \in ppta_fonts

C8_UnresolvedRunKept ==
    para_pc = "returned" =>
        \A run \in seen :
            (~run.raises /\ (~Truthy(run.name) \/ BeginsWithMarker(run.name))) =>
                UNKNOWN \in Keys(paragraph_fonts)

(***************************************************************************)
(* Properties of the usage index and the report (Spec)                     *)
(***************************************************************************)
\* the font names qtppta.analyze_fonts holds for a slide
QtFontsOnSlide(slide) ==
    IF slide \in Keys(font_usage)
    THEN UNION {Keys(At(At(font_usage, slide), st)) : st \in Keys(At(font_usage, slide))}
    ELSE {}

\* the font names ppta.analyze_fonts holds for a slide
PptaFontsOnSlide(slide) ==
    IF slide \in Keys(ppta_font_usage)
    THEN UNION {At(At(ppta_font_usage, slide), st) : st \in Keys(At(ppta_font_usage, slide))}
    ELSE {}

\* C5: a run whose font name is a theme code whose slot the scheme defines
\* is aggregated on its slide under the scheme's typeface, in qtppta.py and
\* in ppta.py.
C5_ThemeCodeAggregatedAsTypeface ==
    \A item \in doc_runs :
        (item[2].name \in THEME_FONT_CODES /\ SchemeSlot(doc_theme, item[2].name) # None) =>
            /\ SchemeSlot(doc_theme, item[2].name) \in QtFontsOnSlide(item[1])
            /\ SchemeSlot(doc_theme, item[2].name) \in PptaFontsOnSlide(item[1])

\* C6: a visible run with a theme code whose slot the scheme lacks is
\* aggregated under "(unknown)", and no theme code is ever a font name of the
\* usage index or a row of the report.
C6_ThemeCodeNeverAFontName ==
    /\ \A item \in doc_runs :
          (item[2].name \in THEME_FONT_CODES /\ HasVisibleText(item[2])
             /\ SchemeSlot(doc_theme, item[2].name) = None) =>
                UNKNOWN \in QtFontsOnSlide(item[1])
    /\ \A slide \in 1..slide_num :
          (QtFontsOnSlide(slide) \cup PptaFontsOnSlide(slide)) \cap THEME_FONT_CODES = {}
    /\ (Keys(font_to_slides) \cup Keys(ppta_font_to_slides)) \cap THEME_FONT_CODES = {}

\* C7: no font name that begins, case-insensitively, with an internal-default
\* marker is a row of the font usage report of qtppta.py or of ppta.py.
C7_NoInternalMarkerRow ==
    \A font \in Keys(font_to_slides) \cup Keys(ppta_font_to_slides) : ~BeginsWithMarker(font)

C7_Witness ==
    /\ doc_pc = "reported"
    /\ \E item \in doc_runs : item[2].name = UpperMJ_LT
    /\ \E item \in doc_runs : item[2].name = MJ_LT
    /\ Calibri \in Keys(font_to_slides)
    /\ Calibri \in Keys(ppta_font_to_slides)

\* C9: a whitespace-only run with a literal font name F is recorded: the
\* report's index has F on the run's slide, and when no run of F on that slide
\* has visible text the record is not visible and has no sizes.
C9_WhitespaceRunRecorded ==
    doc_pc = "reported" =>
        \A item \in doc_runs :
            (~HasVisibleText(item[2]) /\ IsLiteralName(item[2].name)) =>
                /\ item[2].name \in Keys(font_to_slides)
                /\ item[1] \in Keys(At(font_to_slides, item[2].name))
                /\ (~\E other \in doc_runs : /\ other[1] = item[1]
                                             /\ other[2].name = item[2].name
                                             /\ HasVisibleText(other[2])) =>
                      At(At(font_to_slides, item[2].name), item[1]) = NewInfo

\* a run counts for a record: "(unknown)" takes the runs without a usable name
OfFont(run, font) ==
    IF font = UNKNOWN THEN ~Truthy(run.name) \/ BeginsWithMarker(run.name)
    ELSE run.name = font

\* the sizes, in points, of the visible runs of a font on a slide
SizesObserved(slide, font) ==
    {FontSize(item[2]) : item \in {x \in doc_runs : /\ x[1] = slide
                                                    /\ HasVisibleText(x[2])
                                                    /\ x[2].size # NoSize
                                                    /\ OfFont(x[2], font)}}

\* C10: every size of a (font, slide) record - as stored per shape by
\* analyze_fonts (paragraph, shape and group results), in all_fonts_info and in
\* the report's font_to_slides - was observed on a visible run of that font on
\* that slide; sizes of whitespace-only runs never enter.
C10_SizesFromVisibleRuns ==
    /\ \A slide \in Keys(font_usage) :
         \A st \in Keys(At(font_usage, slide)) :
           \A font \in Keys(At(At(font_usage, slide), st)) :
             At(At(At(font_usage, slide), st), font).sizes \subseteq SizesObserved(slide, font)
    /\ \A font \in Keys(all_fonts_info) :
         At(all_fonts_info, font).sizes \subseteq
             UNION {SizesObserved(slide, font) : slide \in 1..slide_num}
    /\ \A font \in Keys(font_to_slides) :
         \A slide \in Keys(At(font_to_slides, font)) :
           At(At(font_to_slides, font), slide).sizes \subseteq SizesObserved(slide, font)

C10_Witness ==
    /\ doc_pc = "reported"
    /\ <<1, RunA>> \in doc_runs /\ <<1, RunB>> \in doc_runs
    /\ Calibri \in Keys(font_to_slides)
    /\ At(At(font_to_slides, Calibri), 1) = [has_visible_text |-> TRUE, sizes |-> {18}]

(***************************************************************************)
(* Order and repetition of the aggregation (Spec, SpecFail)                *)
(***************************************************************************)
\* the orders in which the shapes of a bag can be read
Orderings(bag) ==
    LET n == BagCardinality(bag)
    IN  {order \in [1..n -> BagToSet(bag)] :
            \A e \in BagToSet(bag) :
                Cardinality({i \in 1..n : order[i] = e}) = CopiesIn(e, bag)}

Reverse(seq) == [i \in 1..Len(seq) |-> seq[Len(seq) + 1 - i]]

\* a shape with its paragraphs, the runs of each paragraph, its table rows and
\* cells and its member shapes in the opposite order
RECURSIVE ReversedShape(_)
ReversedShape(shape) ==
    [shape EXCEPT
        !.paragraphs = Reverse([i \in DOMAIN shape.paragraphs |-> Reverse(shape.paragraphs[i])]),
        !.rows = Reverse([r \in DOMAIN shape.rows |->
                    Reverse([c \in DOMAIN shape.rows[r] |->
                        Reverse([p \in DOMAIN shape.rows[r][c] |->
                            Reverse(shape.rows[r][c][p])])])]),
        !.shapes = Reverse([i \in DOMAIN shape.shapes |-> ReversedShape(shape.shapes[i])])]

\* C11: the per-font, per-slide index of the report does not depend on the
\* order in which slides, shapes, paragraphs and runs are read: every order
\* of the shapes read, also with paragraphs and runs reversed, gives the index
\* the report has built.
C11_OrderIndependent ==
    doc_pc = "reported" =>
        \A order \in Orderings(doc_shapes) :
            /\ format_font_to_slides(analyze_fonts_loop(EmptyDict, order)) = font_to_slides
            /\ format_font_to_slides(analyze_fonts_loop(EmptyDict,
                   [i \in DOMAIN order |-> <<order[i][1], ReversedShape(order[i][2])>>]))
                 = font_to_slides

\* C12: merging an aggregated index with itself gives the index back, for the
\* result of every shape stored in font_usage and for the document's
\* all_fonts_info.
C12_MergeIdempotent ==
    /\ merge_fonts(all_fonts_info, all_fonts_info) = all_fonts_info
    /\ \A slide \in Keys(font_usage) :
         \A st \in Keys(At(font_usage, slide)) :
            merge_fonts(At(At(font_usage, slide), st), At(At(font_usage, slide), st))
               = At(At(font_usage, slide), st)

\* the index holds visible records with sizes, and the result of a group
\* whose only record is one without visible text
C12_Witness ==
    /\ doc_pc = "analyzed"
    /\ {Calibri, Georgia} \subseteq Keys(all_fonts_info)
    /\ At(all_fonts_info, Calibri) = [has_visible_text |-> TRUE, sizes |-> {18}]
    /\ At(all_fonts_info, Georgia) = [has_visible_text |-> TRUE, sizes |-> {10}]
    /\ \E slide \in Keys(font_usage) :
          /\ ShapeType(GroupShape("Group 4", <<>>)) \in Keys(At(font_usage, slide))
          /\ At(At(font_usage, slide), ShapeType(GroupShape("Group 4", <<>>)))
                = {<<Calibri, [has_visible_text |-> FALSE, sizes |-> {}]>>}

(***************************************************************************)
(* Properties of the availability verdicts (SpecReport)                    *)
(***************************************************************************)
\* the inventory entries as found on the system
InventoryEntries == {system_fonts[i] : i \in DOMAIN system_fonts}

\* some inventory entry has the same lower-cased spelling
ExactHit(font) == \E entry \in InventoryEntries : Lower(font) = Lower(entry)

\* the inventory entries with the same alphanumeric-only, lower-cased form
NormalizedHits(font) == {entry \in InventoryEntries : Normalized(entry) = Normalized(font)}

\* C13: a font name whose lower-cased spelling equals the lower-cased
\* spelling of an inventory entry is reported as plain Installed by both
\* programs (the exact step comes before the normalized step).
ExactHitsInstalled(rows) ==
    \A font \in Keys(rows) \ {UNKNOWN} : ExactHit(font) => At(rows, font) = Installed

C13_ExactMatchInstalled ==
    doc_pc = "reported" =>
        ExactHitsInstalled(font_report.rows) /\ ExactHitsInstalled(ppta_font_report.rows)

\* C14: a font name that fails the exact match but whose normalized form
\* equals that of an inventory entry is reported as installed as that entry,
\* in both programs; Missing is reported only when neither step matches.
NormalizedHitsInstalledAs(rows) ==
    \A font \in Keys(rows) \ {UNKNOWN} :
        /\ (~ExactHit(font) /\ NormalizedHits(font) # {}) =>
               /\ At(rows, font).verdict = "Installed as"
               /\ At(rows, font).matched_font \in NormalizedHits(font)
        /\ At(rows, font) = Missing =>
               ~ExactHit(font) /\ NormalizedHits(font) = {}

C14_NormalizedMatchInstalledAs ==
    doc_pc = "reported" =>
        /\ NormalizedHitsInstalledAs(font_report.rows)
        /\ NormalizedHitsInstalledAs(ppta_font_report.rows)

\* C15: a document font that differs from an inventory entry only by letter
\* case and leading or trailing whitespace is reported as plain Installed by
\* both programs.
StrippedHitsInstalled(rows) ==
    \A font \in Keys(rows) \ {UNKNOWN} :
        (\E entry \in InventoryEntries : Strip(Lower(font)) = Strip(Lower(entry))) =>
            At(rows, font) = Installed

C15_CaseAndWhitespaceInstalled ==
    doc_pc = "reported" =>
        StrippedHitsInstalled(font_report.rows) /\ StrippedHitsInstalled(ppta_font_report.rows)

\* C16: the "(unknown)" row carries the unresolved status whatever the
\* inventory holds, and is counted neither in the total nor in the missing
\* custom fonts.
C16_UnknownNeverClassified ==
    (doc_pc = "reported" /\ UNKNOWN \in Keys(font_report.rows)) =>
        /\ At(font_report.rows, UNKNOWN) = UnknownStatus
        /\ font_report.total_fonts = Cardinality(Keys(font_report.rows)) - 1
        /\ font_report.missing_fonts <= font_report.total_fonts
        /\ font_report.missing_fonts =
              Cardinality({font \in Keys(font_report.rows) \ {UNKNOWN} :
                              ~ExactHit(font) /\ NormalizedHits(font) = {}})

C16_Witness ==
    /\ doc_pc = "reported"
    /\ UNKNOWN \in InventoryEntries
    /\ UNKNOWN \in Keys(font_report.rows)
    /\ font_report.total_fonts = 2
    /\ font_report.missing_fonts = 1

\* the greatest entry, in the order of Python strings
Greatest(entries) == CHOOSE e \in entries : \A other \in entries \ {e} : StrLess(other, e)

\* C17: the verdict depends on the font name and the inventory contents
\* only: the custom font table and the theme font table give a name the same
\* verdict, the matched name of an 'installed as' verdict is fixed by the
\* inventory contents, and the missing count counts the rows shown as Missing.
SameVerdictInBothTables(rows, theme_rows) ==
    \A item \in theme_rows :
        (item[2].font \in Keys(rows) \ {UNKNOWN}) => item[2].status = At(rows, item[2].font)

MissingCountOfRows(rows) == Cardinality({font \in Keys(rows) : At(rows, font) = Missing})

C17_VerdictFunctionOfNameAndInventory ==
    doc_pc = "reported" =>
        /\ SameVerdictInBothTables(font_report.rows, font_report.theme_rows)
        /\ SameVerdictInBothTables(ppta_font_report.rows, ppta_font_report.theme_rows)
        /\ \A font \in Keys(font_report.rows) :
               At(font_report.rows, font).verdict = "Installed as" =>
                   At(font_report.rows, font).matched_font = Greatest(NormalizedHits(font))
        /\ font_report.missing_fonts = MissingCountOfRows(font_report.rows)
        /\ ppta_font_report.missing_fonts = MissingCountOfRows(ppta_font_report.rows)

C17_Witness ==
    /\ doc_pc = "reported"
    /\ InventoryEntries = {ArialBoldSpace, ArialBoldJoined}
    /\ doc_theme = ReadableTheme
    /\ ArialBoldHyphen \in Keys(font_report.rows)
    /\ At(font_report.rows, ArialBoldHyphen) = InstalledAs(ArialBoldJoined)
    /\ At(font_report.theme_rows, <<"major", "latin">>).status = InstalledAs(ArialBoldJoined)
    /\ font_report.missing_fonts = 1

\* the custom font part of a report
CustomFontPart(report) ==
    [font_to_slides |-> report.font_to_slides, rows |-> report.rows,
     total_fonts |-> report.total_fonts, missing_fonts |-> report.missing_fonts,
     unknown_fonts |-> report.unknown_fonts]

\* a readable theme for the documents of Spec
ReadableDocTheme == CHOOSE t \in DocThemes : t.part = "ok"

\* the custom font part of both reports is the one the same slides give with
\* the readable theme t
CustomPartAsWith(t) ==
    /\ \E order \in Orderings(doc_shapes) :
           analyze_fonts_loop(EmptyDict, order) = font_usage
    /\ CustomFontPart(font_report) =
           CustomFontPart(format_font_report(font_usage, system_fonts, t))
    /\ CustomFontPart(ppta_font_report) =
           CustomFontPart(print_font_report(ppta_font_usage, system_fonts, t))

\* C20: with the theme part missing or malformed the report is produced,
\* every visible theme-coded run is found under "(unknown)" on its slide and
\* under no theme code, and the custom font rows, their per-slide usage, their
\* verdicts and the custom font counts are those of the same slides with a
\* readable theme.
C20_ThemeFailureDegradesToUnknown ==
    (doc_pc = "reported" /\ doc_theme.part # "ok") =>
        /\ \A item \in doc_runs :
               (item[2].name \in THEME_FONT_CODES /\ HasVisibleText(item[2])) =>
                   /\ UNKNOWN \in Keys(font_report.rows)
                   /\ item[1] \in Keys(At(font_report.font_to_slides, UNKNOWN))
                   /\ item[2].name \notin Keys(font_report.rows)
                   /\ item[2].name \notin Keys(ppta_font_report.rows)
        /\ CustomPartAsWith(ReadableDocTheme)
        /\ font_report.theme_rows = EmptyDict

\* the custom font part alone, for the documents of Spec and of SpecReport
ThemeFailureLeavesCustomPart ==
    (doc_pc = "reported" /\ doc_theme.part # "ok") =>
        CustomPartAsWith(ReadableDocTheme) /\ CustomPartAsWith(ReadableTheme)

(***************************************************************************)
(* C18: a run, a shape or a slide that cannot be read                      *)
(***************************************************************************)
\* the shapes read so far with their slide numbers, in reading order
ItemsRead ==
    Flatten([i \in 1..Len(doc_slides) |->
                [j \in 1..Len(doc_slides[i].shapes) |-> <<i, doc_slides[i].shapes[j]>>]])

\* C18: whatever run, shape or slide raises, the analysis goes on to its
\* return, and the usage index and the font totals of qtppta.py and of ppta.py
\* are those of the failure-free analysis of what could be read: every other
\* run, shape and slide contributes what it contributes there.
C18_FailureIsolated ==
    /\ doc_pc \in {"slides", "analyzed"}
    /\ font_usage = failure_free.font_usage
    /\ all_fonts_info = failure_free.all_fonts_info
    /\ ppta_font_usage = failure_free.ppta_font_usage
    /\ ppta_all_fonts = failure_free.ppta_all_fonts

\* analyze_fonts has returned for a document with a paragraph in which a run
\* raised between two readable runs, a shape that raised and a first slide that
\* raised, and the readable runs around them are in the index
C18_Witness ==
    /\ doc_pc = "analyzed"
    /\ doc_slides[1].raises
    /\ \E i \in DOMAIN ItemsRead : ItemsRead[i][2].raises
    /\ \E i \in DOMAIN ItemsRead :
          ItemsRead[i][2] = TextShape("Title 1", << <<RunG, BadRun, RunA>> >>)
    /\ \E slide \in Keys(font_usage) : \E st \in Keys(At(font_usage, slide)) :
          {Georgia, Calibri} \subseteq Keys(At(At(font_usage, slide), st))
    /\ {Georgia, Calibri} \subseteq ppta_all_fonts

(***************************************************************************)
(* C19: the diagnostics of elements that could not be read                 *)
(***************************************************************************)
IsErrorEntry(entry) == "error" \in DOMAIN entry

\* pptdump: one entry per slide read, in slide order, an error entry with the
\* slide number for a slide that raised; in the other slides one entry per
\* shape, in order, an error entry with the shape name for a shape whose text
\* frame or table raised
DumpKeepsOneEntryPerElement ==
    /\ Len(pres_slides) = IF doc_pc = "slides" THEN Len(doc_slides) - 1 ELSE Len(doc_slides)
    /\ \A i \in DOMAIN pres_slides :
          LET entry == pres_slides[i]
              shapes == doc_slides[i].shapes
          IN  /\ entry.slide_number = i
              /\ IsErrorEntry(entry) <=> doc_slides[i].raises
              /\ ~IsErrorEntry(entry) =>
                    /\ Len(entry.shapes) = Len(shapes)
                    /\ \A j \in DOMAIN shapes :
                          /\ (shapes[j].raises /\ shapes[j].kind # "group")
                                => IsErrorEntry(entry.shapes[j])
                          /\ IF IsErrorEntry(entry.shapes[j])
                             THEN entry.shapes[j].shape_name = shapes[j].name
                             ELSE entry.shapes[j].name = shapes[j].name

\* the locations of the runs and shapes that raised while the shape was read:
\* <<slide number, shape name>>; the members of a group count when the
\* program visits them
RECURSIVE FailedIn(_, _, _)
FailedIn(slide, shape, visits_groups) ==
    LET members == IF shape.kind = "group" /\ visits_groups
                   THEN ReadBeforeRaise(shape, shape.shapes) ELSE <<>>
    IN  (IF RaisingRunIn(ReadBeforeRaise(shape, ParagraphsOf(shape)))
            \/ (shape.raises /\ (visits_groups \/ shape.kind # "group"))
         THEN {<<slide, shape.name>>} ELSE {})
        \cup UNION {FailedIn(slide, members[i], visits_groups) : i \in DOMAIN members}

\* the locations of everything that was skipped: runs and shapes, and the
\* slides that raised as <<slide number>>
FailedElements(visits_groups) ==
    UNION {FailedIn(ItemsRead[i][1], ItemsRead[i][2], visits_groups) : i \in DOMAIN ItemsRead}
    \cup {<<i>> : i \in {k \in DOMAIN doc_slides : doc_slides[k].raises}}

\* the location a log record carries: the slide number, when it has one; no
\* record carries a shape name
LocationOf(record) == IF record.slide = NoSlide THEN <<>> ELSE <<record.slide>>

\* C19: pptdump's output has exactly one entry per slide and per shape, a
\* failed one being an error entry with its slide number or shape name, and
\* in the font analysis of qtppta.py and ppta.py every skipped run, shape or
\* slide has a diagnostic that carries its location.
C19_SkippedElementHasDiagnostic ==
    /\ DumpKeepsOneEntryPerElement
    /\ \A location \in FailedElements(TRUE) :
          \E record \in log : LocationOf(record) = location
    /\ \A location \in FailedElements(FALSE) :
          \E record \in ppta_log : LocationOf(record) = location

(***************************************************************************)
(* C23: the conversion of sizes to points (SpecSize)                       *)
(***************************************************************************)
Abs(n) == IF n < 0 THEN -n ELSE n

\* the sizes recorded for the paragraph, under a name or under "(unknown)"
RecordedSizes ==
    unknown_sizes \cup UNION {At(fonts, k).sizes : k \in Keys(fonts)}
    \cup UNION {At(paragraph_fonts, k).sizes : k \in Keys(paragraph_fonts)}

\* C23: a run of size s (in EMU) with visible text is recorded with the whole
\* number of points p nearest to s / 12700: |p * 12700 - s| <= 6350, and
\* 228600 is recorded as 18.
C23_NearestWholePoint ==
    \A run \in seen :
        /\ RecordedSizes # {}
        /\ \A p \in RecordedSizes : 2 * Abs(p * EMU_PER_POINT - run.size) <= EMU_PER_POINT
        /\ run.size = 228600 => RecordedSizes = {18}

\* the paragraph function has returned for a run of 2.5 points, recorded as 2
\* under its name
C23_Witness ==
    /\ para_pc = "returned"
    /\ \E run \in seen : run.size = 31750 /\ run.name = Calibri
    /\ At(paragraph_fonts, Calibri).sizes = {2}

(***************************************************************************)
(* C24, C27: what the runs and shapes of a slide leave in the index (Spec) *)
(***************************************************************************)
\* C24: every run with a literal font name located in a text frame, in a
\* table cell or in a shape nested in groups has its font in the usage index
\* of its slide, in qtppta.py and in ppta.py.
C24_EveryLocatedRunContributes ==
    \A item \in doc_runs :
        IsLiteralName(item[2].name) =>
            /\ item[2].name \in QtFontsOnSlide(item[1])
            /\ item[2].name \in PptaFontsOnSlide(item[1])

\* the fonts analyze_shape_fonts finds in the shapes of a slide
FontsFoundOnSlide(slide) ==
    UNION {Keys(analyze_shape_fonts(item[2])) :
              item \in {x \in BagToSet(doc_shapes) : x[1] = slide}}

\* C27: the fonts font_usage holds for a slide are exactly the fonts found in
\* the shapes of the slide, and every font of all_fonts_info is on a slide of
\* font_usage.
C27_NoShapeFontsLost ==
    /\ \A slide \in 1..slide_num : QtFontsOnSlide(slide) = FontsFoundOnSlide(slide)
    /\ \A font \in Keys(all_fonts_info) :
          \E slide \in 1..slide_num : font \in QtFontsOnSlide(slide)
(***************************************************************************)
(* Records and small-font marks of qtppta.py (SpecDeck)                    *)
(***************************************************************************)
\* a record of a font: sizes only with visible text
SoundInfo(info) == info.sizes # {} => info.has_visible_text

\* a dictionary from fonts to records: every record is sound and the
\* "(unknown)" entry stands for visible text
SoundFonts(d) ==
    \A font \in Keys(d) :
        /\ SoundInfo(At(d, font))
        /\ font = UNKNOWN => At(d, font).has_visible_text

\* the shape and every shape inside it
RECURSIVE ShapesIn(_)
ShapesIn(shape) ==
    {shape} \cup UNION {ShapesIn(shape.shapes[i]) : i \in DOMAIN shape.shapes}

\* C28: at every level of qtppta, the paragraph (analyze_paragraph_fonts),
\* the shape and the group (analyze_shape_fonts), the document (font_usage
\* and all_fonts_info of analyze_fonts) and the report (font_to_slides of
\* format_font_report), a record with sizes has has_visible_text, and the
\* "(unknown)" entry, where there is one, has has_visible_text
C28_SizesOnlyWithVisibleText ==
    /\ \A item \in BagToSet(doc_shapes) : \A shape \in ShapesIn(item[2]) :
           /\ SoundFonts(analyze_shape_fonts(shape))
           /\ \A i \in DOMAIN ParagraphsOf(shape) :
                  SoundFonts(analyze_paragraph_fonts(ParagraphsOf(shape)[i]))
    /\ SoundFonts(all_fonts_info)
    /\ \A slide \in Keys(font_usage) : \A shape_type \in Keys(At(font_usage, slide)) :
           SoundFonts(At(At(font_usage, slide), shape_type))
    /\ \A font \in Keys(font_to_slides) : \A slide \in Keys(At(font_to_slides, font)) :
           /\ SoundInfo(At(At(font_to_slides, font), slide))
           /\ font = UNKNOWN => At(At(font_to_slides, font), slide).has_visible_text

\* the report of a document with an unnamed visible run of 10 points on one
\* slide, a group, and a shape where a font has only whitespace
C28_Witness ==
    /\ doc_pc = "reported"
    /\ UNKNOWN \in Keys(font_to_slides)
    /\ \E slide \in Keys(At(font_to_slides, UNKNOWN)) :
           At(At(font_to_slides, UNKNOWN), slide).sizes = {10}
    /\ \E item \in BagToSet(doc_shapes) : item[2].kind = "group"
    /\ \E slide \in Keys(font_usage) : \E shape_type \in Keys(At(font_usage, slide)) :
           \E font \in Keys(At(At(font_usage, slide), shape_type)) :
               ~At(At(At(font_usage, slide), shape_type), font).has_visible_text

\* C29: a slide carries the small-font mark of a font exactly when the font
\* has visible text on the slide and a size recorded for it there is below
\* the threshold; a size equal to the threshold does not mark, and a slide
\* where the font has only whitespace is never marked
C29_SmallFontMark ==
    doc_pc = "reported" =>
        /\ Keys(small_font_marks.small_font_slides) = Keys(font_to_slides)
        /\ \A font \in Keys(font_to_slides) : \A slide \in 1..MaxSlides :
               slide \in At(small_font_marks.small_font_slides, font)
               <=> /\ slide \in Keys(At(font_to_slides, font))
                   /\ At(At(font_to_slides, font), slide).has_visible_text
                   /\ \E size \in At(At(font_to_slides, font), slide).sizes :
                          size < font_size_threshold
        /\ \A font \in Keys(font_to_slides) : \A slide \in Keys(At(font_to_slides, font)) :
               /\ At(At(font_to_slides, font), slide).sizes = {font_size_threshold}
                      => slide \notin At(small_font_marks.small_font_slides, font)
               /\ ~At(At(font_to_slides, font), slide).has_visible_text
                      => slide \notin At(small_font_marks.small_font_slides, font)

\* a report with a marked slide, a slide whose only size equals the
\* threshold, and a slide where a font has only whitespace
C29_Witness ==
    /\ doc_pc = "reported"
    /\ \E font \in Keys(font_to_slides) : \E slide \in Keys(At(font_to_slides, font)) :
           slide \in At(small_font_marks.small_font_slides, font)
    /\ \E font \in Keys(font_to_slides) : \E slide \in Keys(At(font_to_slides, font)) :
           At(At(font_to_slides, font), slide).sizes = {font_size_threshold}
    /\ \E font \in Keys(font_to_slides) : \E slide \in Keys(At(font_to_slides, font)) :
           ~At(At(font_to_slides, font), slide).has_visible_text

(***************************************************************************)
(* Properties of the three programs as processes (SpecApp, SpecAppFair)    *)
(***************************************************************************)
Count(seq, x) == Cardinality({i \in DOMAIN seq : seq[i] = x})

\* the call of analyze() or of main() is over
CallOver == calls >= 1 /\ app_pc = "idle"

\* the sections of the document among the sections shown or printed
SectionsFrom(seq, file) == {i \in DOMAIN seq : seq[i].path = file.path}

\* C21: when the document of the call cannot be opened, the failure is
\* reported exactly once, no section of that document is produced, shown or
\* printed, and nothing is started after the load that failed
C21_LoadFailureAborts ==
    (CallOver /\ pptx_path.path # "" /\ ~pptx_path.opens) =>
        /\ failures_reported = 1
        /\ SectionsFrom(output, pptx_path) = {}
        /\ SectionsFrom(results_text, pptx_path) = {}
        /\ SectionsFrom(console, pptx_path) = {}
        /\ Count(events, "load") <= 1
        /\ Count(events, "resolve") = 0
        /\ status_bar # "Analysis complete"

\* C22: when a section raises after earlier sections were generated, what
\* the user is shown (the results area of the window, the console of ppta)
\* holds the earlier sections and a diagnostics section
C22_EarlierSectionsShown ==
    /\ (program = "qtppta" /\ CallOver /\ status_bar = "Error" /\ output # <<>>) =>
           /\ \A i \in DOMAIN output : \E j \in DOMAIN results_text :
                  /\ results_text[j].section = output[i].section
                  /\ results_text[j].path = output[i].path
           /\ \E j \in DOMAIN results_text : results_text[j].section = "diagnostics"
    /\ (program = "ppta" /\ CallOver /\ failures_reported >= 1 /\ console # <<>>) =>
           \E j \in DOMAIN console : console[j].section = "diagnostics"

\* C25: within one call the document is loaded once and the fonts of the
\* machine are enumerated once, both before the first run is resolved
C25_LoadedOnce ==
    /\ Count(events, "load") <= 1
    /\ Count(events, "inventory") <= 1
    /\ \A i \in DOMAIN events : events[i] = "resolve" =>
           /\ \E j \in 1..(i - 1) : events[j] = "load"
           /\ \E j \in 1..(i - 1) : events[j] = "inventory"

\* the section of the document analyzed by a process that analyzed nothing
\* before
AloneSection(sec, file) ==
    IF sec = "fonts"
    THEN LET report == format_font_report(analyze_fonts_loop(EmptyDict, file.items),
                                          get_system_fonts(InstalledFonts), doc_theme)
         IN  [section |-> sec, path |-> file.path, format |-> "html", report |-> report,
              marks |-> format_small_fonts(report.font_to_slides, font_size_threshold)]
    ELSE [section |-> sec, path |-> file.path, format |-> "html", report |-> NoReport,
          marks |-> NoMarks]

\* the report of the document shown by such a process
AloneReport(file, boxes) ==
    LET selected(sec) == sec \in boxes
        secs == SelectSeq(Sections("qtppta"), selected)
    IN  [i \in DOMAIN secs |-> AloneSection(secs[i], file)]

\* C26: whatever was analyzed before in the window, a call of analyze() that
\* completes shows the report, and leaves the usage index and the verdicts,
\* that analyzing its document alone gives
C26_NoStateBetweenDocuments ==
    [][(app_pc = "try" /\ status_bar' = "Analysis complete") =>
          /\ results_text' = AloneReport(pptx_path, checked)
          /\ "fonts" \in checked =>
                 /\ font_usage' = analyze_fonts_loop(EmptyDict, pptx_path.items)
                 /\ font_report'.rows = AloneSection("fonts", pptx_path).report.rows]_vars

\* the third analysis of a session is of document B with its fonts, after
\* an analysis of document A with its fonts
C26_Witness ==
    /\ CallOver
    /\ status_bar = "Analysis complete"
    /\ Len(history) = 3
    /\ history[1] = [path |-> DeckA.path, fonts |-> TRUE]
    /\ history[3] = [path |-> DeckB.path, fonts |-> TRUE]
    /\ pptx_path = DeckB
    /\ UNKNOWN \in Keys(font_to_slides)

\* C30: a call of analyze() that showed "Analyzing..." ends with "Analysis
\* complete" or with the error; "Analysis complete" appears only with the
\* results area holding every checked section of the document; a call with
\* an empty path or a path that names no file changes the status message
\* and nothing else the window shows
C30_AnalyzeEnds ==
    /\ (status_bar = "Analyzing...") ~> (status_bar \in {"Analysis complete", "Error"})
    /\ [](app_pc = "idle" => status_bar # "Analyzing...")
    /\ [][(status_bar' = "Analysis complete" /\ status_bar # "Analysis complete") =>
              \A sec \in checked' : \E i \in DOMAIN results_text' :
                  /\ results_text'[i].section = sec
                  /\ results_text'[i].path = pptx_path'.path
                  /\ results_text'[i].format = "html"]_vars
    /\ [][(program = "qtppta" /\ calls' = calls + 1
           /\ (file_entry.path = "" \/ ~file_entry.exists)) =>
              /\ results_text' = results_text
              /\ file_entry' = file_entry
              /\ checked' = checked
              /\ status_bar' \in {"Please select a file first", "Selected file does not exist"}]_vars

\* a session: a call with a path that names no file, then a call that
\* completes with the four sections of a document in the results area
C30_Witness ==
    /\ CallOver
    /\ status_bar = "Analysis complete"
    /\ Len(results_text) = 4
    /\ Len(history) >= 2
    /\ history[Len(history) - 1].path = MissingFile.path

====
